---- MODULE Spec2Model ----
(***************************************************************************)
(* Yarn-ball simulations of jsk13-2025-black-cat.                          *)
(*                                                                         *)
(* The repository holds five stand-alone scripts, each a closure started   *)
(* on DOMContentLoaded with its own state and its own frame loop:          *)
(*   "impulse"    src/game.js, first module   (impulse-based rigid body)   *)
(*   "disk"       src/game.js, second module  (Verlet disk, wound chain)   *)
(*   "ik"         src/unnamed/part_001        (impulse body, spool, IK)    *)
(*   "clamp"      src/unnamed/part_000        (hard-clamp body)            *)
(*   "clampspin"  src/unnamed/part_002        (hard-clamp body with spin)  *)
(* The variable `variant` says which script a behaviour is a run of.       *)
(*                                                                         *)
(* JavaScript numbers are modelled in fixed point:                         *)
(*   lengths   PX units per pixel          velocities  PX units per second *)
(*   times     MS units per millisecond    angles      MRAD units per rad  *)
(* Every quotient is rounded to the nearest unit (RDiv).                   *)
(***************************************************************************)
EXTENDS Integers, Sequences, FiniteSets, TLC

VARIABLES
    variant,      \* which script runs
    canvas,       \* [w, h]: c.clientWidth, c.clientHeight
    ball,         \* the body
    mouse,        \* [x, y, down]
    lastMouse,    \* [x, y, t]
    hitCooldown,  \* time units left before the next hit may be applied
    last,         \* timestamp of the previous frame
    rafPending,   \* frame callbacks requested and not yet run
    rope,         \* rope / spool state of the "ik" and "disk" scripts
    obs,          \* what the last frame did (locals of step, for the properties)
    hist,         \* history over the whole run (for the properties)
    shadow        \* a second run on the same inputs (for the coupling property)

vars == <<variant, canvas, ball, mouse, lastMouse, hitCooldown, last, rafPending,
          rope, obs, hist, shadow>>

-----------------------------------------------------------------------------
(* Number representation *)

PX == 10
MS == 10
MRAD == 1000

SEC == 1000 * MS                 \* time units per second

Abs(a) == IF a < 0 THEN -a ELSE a
Max(a, b) == IF a >= b THEN a ELSE b
Min(a, b) == IF a <= b THEN a ELSE b

\* a / b rounded to the nearest unit, halves away from zero (b > 0)
RDiv(a, b) == IF a >= 0 THEN (2 * a + b) \div (2 * b)
                        ELSE -((2 * (-a) + b) \div (2 * b))

clamp(v, a, b) == Max(a, Min(b, v))

cross2(ax, ay, bx, by) == ax * by - ay * bx

RECURSIVE SqrtIter(_, _)
SqrtIter(n, x) ==
    LET y == (x + (n \div x)) \div 2
    IN  IF y >= x THEN x ELSE SqrtIter(n, y)

\* floor of the square root
ISqrt(n) == IF n < 2 THEN n ELSE SqrtIter(n, n \div 2)

\* Math.hypot, to the nearest unit
Hypot(dx, dy) ==
    LET n == dx * dx + dy * dy
        s == ISqrt(n)
    IN  IF n - s * s > s THEN s + 1 ELSE s

RECURSIVE GCD(_, _)
GCD(a, b) == IF b = 0 THEN a ELSE GCD(b, a % b)

\* Math.PI and its multiples, in MRAD units
PI == 3142
TWO_PI == 6283
HALF_PI == 1571

\* sin on [0, PI], scaled by MRAD (Bhaskara's rational approximation)
SinPos(x) ==
    LET p == 4 * x * (PI - x)
        d == (5 * PI * PI - p) \div MRAD
    IN  RDiv(4 * p, d)

Sin(a) ==
    LET x == a % TWO_PI
    IN  IF x <= PI THEN SinPos(x) ELSE -SinPos(x - PI)

Cos(a) == Sin(a + HALF_PI)


-----------------------------------------------------------------------------
(* World and body parameters of the five scripts *)

Variants == {"impulse", "disk", "ik", "clamp", "clampspin"}
ImpulseVariants == {"impulse", "ik"}
ClampVariants == {"clamp", "clampspin"}

\* px/s^2
grav(v) == IF v = "disk" THEN 1600 ELSE 1200
\* restitution of the floor, in hundredths
rest(v) == CASE v = "disk" -> 55 [] v = "ik" -> 66 [] OTHER -> 72
\* restitution of the ceiling and of the side walls, in hundredths
wallRest(v) == CASE v = "disk" -> 50 [] v = "ik" -> 55 [] OTHER -> 60
\* Coulomb friction, in hundredths
muGround == 60
muWall == 50
\* px
radius(v) == IF v = "disk" THEN 38 ELSE 40
mass == 1
\* (2 / 5) * mass * radius * radius, px^2
inertia(v) == (2 * mass * radius(v) * radius(v)) \div 5

\* the pointer hits within radius + margin (px); strictly within, except in "disk"
hitMargin(v) == IF v = "disk" THEN 3 ELSE 2
\* hitCooldown after a hit: 0.09 s, 0.10 s in "disk"
hitCooldownReset(v) == IF v = "disk" THEN SEC \div 10 ELSE (9 * SEC) \div 100
\* dt is clamped to [0, 0.033] s
maxStep == (33 * SEC) \div 1000

-----------------------------------------------------------------------------
(* Impulse-based contacts ("impulse", "ik") *)

\* velocity of the contact point: v + w x r
contactVelocity(vx, vy, omega, rx, ry) ==
    [cx |-> vx - RDiv(omega * ry, MRAD), cy |-> vy + RDiv(omega * rx, MRAD)]

\* ball.v += J / mass; ball.spin += (r x J) / inertia
applyImpulseAtPoint(v, b, Jx, Jy, rx, ry) ==
    LET torqueZ == cross2(rx, ry, Jx, Jy)
    IN  [b EXCEPT !.vx = @ + RDiv(Jx, mass),
                  !.vy = @ + RDiv(Jy, mass),
                  !.spin = @ + RDiv(torqueZ * (MRAD \div (PX * PX)), inertia(v))]

\* 1 / (1 / mass + (rc * rc) / inertia) as a reduced fraction <<num, den>>;
\* rc is (r x n)_z or (r x t)_z in length units
effMass(v, rc) ==
    LET num == mass * inertia(v) * PX * PX
        den == inertia(v) * PX * PX + mass * rc * rc
        g == GCD(num, den)
    IN  <<num \div g, den \div g>>

\* a fully elastic normal impulse, whatever e (C23 tells it from
\* normalImpulse)
normalImpulseElastic(v, vn, rn, e) == -2 * vn * mass

\* the normal impulse scalar Jn of a contact with normal velocity vn < 0
normalImpulse(v, vn, rn, e) ==
    LET kN == effMass(v, rn)
    IN  RDiv(RDiv(-(100 + e) * vn, 100) * kN[1], kN[2])

\* a friction that always slides at the Coulomb limit (C15 tells it from
\* frictionImpulse)
frictionImpulseSliding(v, vt2, rt, Jn, mu) ==
    IF vt2 > 0 THEN -RDiv(mu * Abs(Jn), 100) ELSE RDiv(mu * Abs(Jn), 100)

\* the tangential impulse: the one that stops the slip, clamped to the
\* Coulomb cone of the normal impulse Jn
frictionImpulse(v, vt2, rt, Jn, mu) ==
    LET kT == effMass(v, rt)
        Jt == RDiv(-vt2 * kT[1], kT[2])
        maxF == RDiv(mu * Abs(Jn), 100)
    IN  clamp(Jt, -maxF, maxF)

\* n is an axis unit vector (components -1, 0, 1) pointing into the world
\* the friction impulse of a contact, on the body b1 that has taken the normal
\* impulse Jn
resolveFriction(v, b1, nx, ny, Jn, mu) ==
    LET rx == -nx * radius(v) * PX
        ry == -ny * radius(v) * PX
        tx == -ny
        ty == nx
        cv2 == contactVelocity(b1.vx, b1.vy, b1.spin, rx, ry)
        JtClamped == frictionImpulse(v, cv2.cx * tx + cv2.cy * ty,
                                     cross2(rx, ry, tx, ty), Jn, mu)
    IN  applyImpulseAtPoint(v, b1, JtClamped * tx, JtClamped * ty, rx, ry)

\* the normal impulse Jn of a contact, then its friction
resolveNormal(v, b, nx, ny, Jn, mu) ==
    resolveFriction(v, applyImpulseAtPoint(v, b, Jn * nx, Jn * ny,
                                           -nx * radius(v) * PX, -ny * radius(v) * PX),
                    nx, ny, Jn, mu)

resolvePlaneContact(v, b, nx, ny, e, mu) ==
    LET rx == -nx * radius(v) * PX
        ry == -ny * radius(v) * PX
        cv == contactVelocity(b.vx, b.vy, b.spin, rx, ry)
        vn == cv.cx * nx + cv.cy * ny
    IN  IF vn >= 0 THEN b
        ELSE resolveNormal(v, b, nx, ny,
                           normalImpulse(v, vn, cross2(rx, ry, nx, ny), e), mu)

\* a contact without the positional correction (C3 tells it from
\* positionalCorrection)
positionalCorrectionSkipped(b, nx, ny, penetration) == b

\* slop 0.2 px, percent 0.8
slop == (2 * PX) \div 10
positionalCorrection(b, nx, ny, penetration) ==
    IF penetration <= 0 THEN b
    ELSE LET corr == RDiv(Max(0, penetration - slop) * 8, 10)
         IN  [b EXCEPT !.x = @ + nx * corr, !.y = @ + ny * corr]

\* one boundary: positional correction, then the contact impulse
contact(v, b, nx, ny, penetration, e, mu) ==
    resolvePlaneContact(v, positionalCorrection(b, nx, ny, penetration), nx, ny, e, mu)

\* gravity, integration and air damping (air = 0.996); dt in time units
integrateImpulse(v, b, dt) ==
    LET vy1 == b.vy + RDiv(grav(v) * PX * dt, SEC)
    IN  [b EXCEPT !.x = @ + RDiv(b.vx * dt, SEC),
                  !.y = @ + RDiv(vy1 * dt, SEC),
                  !.angle = @ + RDiv(b.spin * dt, SEC),
                  !.vx = RDiv(b.vx * 996, 1000),
                  !.vy = RDiv(vy1 * 996, 1000),
                  !.spin = RDiv(b.spin * 996, 1000)]

\* the four half-planes in the order of the code: floor, ceiling, left, right;
\* each test takes the body the tests before it left, and pen records the
\* penetration it detected (0: none)
floorContact(v, b, h) ==
    LET r == radius(v) * PX
    IN  [ball |-> IF b.y + r > h
                  THEN contact(v, b, 0, -1, b.y + r - h, rest(v), muGround) ELSE b,
         pen |-> [floor |-> Max(0, b.y + r - h)]]

ceilingContact(v, a) ==
    LET r == radius(v) * PX
        b == a.ball
    IN  [ball |-> IF b.y - r < 0
                  THEN contact(v, b, 0, 1, r - b.y, wallRest(v), muGround) ELSE b,
         pen |-> [floor |-> a.pen.floor, ceiling |-> Max(0, r - b.y)]]

leftContact(v, a) ==
    LET r == radius(v) * PX
        b == a.ball
    IN  [ball |-> IF b.x - r < 0
                  THEN contact(v, b, 1, 0, r - b.x, wallRest(v), muWall) ELSE b,
         pen |-> [floor |-> a.pen.floor, ceiling |-> a.pen.ceiling,
                  left |-> Max(0, r - b.x)]]

rightContact(v, a, w) ==
    LET r == radius(v) * PX
        b == a.ball
    IN  [ball |-> IF b.x + r > w
                  THEN contact(v, b, -1, 0, b.x + r - w, wallRest(v), muWall) ELSE b,
         pen |-> [floor |-> a.pen.floor, ceiling |-> a.pen.ceiling,
                  left |-> a.pen.left, right |-> Max(0, b.x + r - w)]]

boundsImpulse(v, b0, w, h) ==
    rightContact(v, leftContact(v, ceilingContact(v, floorContact(v, b0, h))), w)

\* far below the floor: respawn near the top; rnd is Math.random() * 2 - 1
\* in thousandths
recover(v, b, w, h, rnd) ==
    IF b.y - radius(v) * PX > h + 400 * PX
    THEN [b EXCEPT !.x = w \div 2, !.y = h \div 4,
                   !.vx = RDiv(120 * PX * rnd, 1000), !.vy = -600 * PX, !.spin = 0]
    ELSE b


-----------------------------------------------------------------------------
(* Pointer hits *)

\* finite-difference pointer velocity, with the 0.001 s floor on the time delta
pointerVelocity(m, lm, now) ==
    LET mdT == Max(SEC \div 1000, now - lm.t)
    IN  [x |-> RDiv((m.x - lm.x) * SEC, mdT), y |-> RDiv((m.y - lm.y) * SEC, mdT)]

\* the distance test of the hit: dist < radius + 2, and in "disk"
\* not (dist > radius + 3)
pointerInRange(v, m, b) ==
    LET dx == m.x - b.x
        dy == m.y - b.y
        R == (radius(v) + hitMargin(v)) * PX
    IN  IF v = "disk" THEN dx * dx + dy * dy <= R * R
                      ELSE dx * dx + dy * dy < R * R

\* a hit test that forgets the cooldown (C4 tells it from hitApplies)
hitAppliesAnyTime(v, m, b, cd) ==
    pointerInRange(v, m, b) /\ (v = "disk" => m.down)

\* whether this frame (substep) applies a hit; cd is the cooldown already
\* decremented by the frame's dt
hitApplies(v, m, b, cd) ==
    IF v = "disk" THEN m.down /\ ~(cd > 0) /\ pointerInRange(v, m, b)
                  ELSE pointerInRange(v, m, b) /\ cd <= 0

\* the impulse of a hit: n is the unit vector from the body to the pointer
\* (in thousandths), J the impulse
hitVector(v, m, b, mv) ==
    LET dx == m.x - b.x
        dy == m.y - b.y
        dist == Hypot(dx, dy)
        dd == IF dist = 0 THEN 1 ELSE dist
        nx == RDiv(dx * 1000, dd)
        ny == RDiv(dy * 1000, dd)
        approach == -RDiv(nx * mv.x + ny * mv.y, 1000)
        base == IF v = "disk"
                THEN 520 * PX + clamp(RDiv(approach * 7, 10), -250 * PX, 900 * PX)
                ELSE 420 * PX + clamp(RDiv(approach * 6, 10), -200 * PX, 800 * PX)
        bias == IF v = "disk" THEN 150 * PX ELSE 120 * PX
    IN  [nx |-> nx, ny |-> ny,
         Jx |-> RDiv(-nx * base, 1000), Jy |-> RDiv(-ny * base, 1000) - bias]

\* "impulse", "ik": the impulse is applied at the surface point r = -n * radius
hitImpulse(v, b, hv) ==
    applyImpulseAtPoint(v, b, hv.Jx, hv.Jy,
                        RDiv(-hv.nx * radius(v) * PX, 1000),
                        RDiv(-hv.ny * radius(v) * PX, 1000))


-----------------------------------------------------------------------------
(* Hard-clamp bodies ("clamp", "clampspin") *)

integrateClamp(v, b, dt) ==
    LET vy1 == b.vy + RDiv(grav(v) * PX * dt, SEC)
        b1 == [b EXCEPT !.vy = vy1,
                        !.x = @ + RDiv(b.vx * dt, SEC),
                        !.y = @ + RDiv(vy1 * dt, SEC)]
    IN  IF v = "clampspin"
        THEN [b1 EXCEPT !.angle = @ + RDiv(b.spin * dt, SEC),
                        !.spin = RDiv(b.spin * 996, 1000)]
        ELSE b1

\* boundaries with the ceiling only (C27 tells it from boundsClamp)
boundsClampCeilingOnly(v, b0, w, h) ==
    [ball |-> IF b0.y - radius(v) * PX < 0
              THEN [b0 EXCEPT !.y = radius(v) * PX,
                              !.vy = RDiv(-wallRest(v) * b0.vy, 100)]
              ELSE b0,
     pen |-> [floor |-> Max(0, b0.y + radius(v) * PX - h),
              ceiling |-> Max(0, radius(v) * PX - b0.y), left |-> 0, right |-> 0]]

\* boundaries with the floor only (C24 tells it from boundsClamp)
boundsClampFloorOnly(v, b0, w, h) ==
    [ball |-> IF b0.y + radius(v) * PX > h
              THEN [b0 EXCEPT !.y = h - radius(v) * PX,
                              !.vy = RDiv(-rest(v) * b0.vy, 100)]
              ELSE b0,
     pen |-> [floor |-> Max(0, b0.y + radius(v) * PX - h), ceiling |-> 0,
              left |-> 0, right |-> 0]]

\* floor (bounce, 0.98 friction, rolling spin), ceiling, then left or else right
boundsClamp(v, b0, w, h) ==
    LET r == radius(v) * PX
        vxF == RDiv(b0.vx * 98, 100)
        bF == [b0 EXCEPT !.y = h - r, !.vy = RDiv(-rest(v) * b0.vy, 100), !.vx = vxF]
        b1 == IF b0.y + r > h
              THEN IF v = "clampspin"
                   THEN [bF EXCEPT !.spin = @ + RDiv(vxF * 45 * (MRAD \div (100 * PX)),
                                                     radius(v))]
                   ELSE bF
              ELSE b0
        b2 == IF b1.y - r < 0
              THEN [b1 EXCEPT !.y = r, !.vy = RDiv(-wallRest(v) * b1.vy, 100)]
              ELSE b1
        bW == [b2 EXCEPT !.vx = RDiv(-wallRest(v) * b2.vx, 100)]
        bS == IF v = "clampspin" THEN [bW EXCEPT !.spin = RDiv(bW.spin * 9, 10)] ELSE bW
        b3 == IF b2.x - r < 0 THEN [bS EXCEPT !.x = r]
              ELSE IF b2.x + r > w THEN [bS EXCEPT !.x = w - r]
              ELSE b2
    IN  [ball |-> b3,
         pen |-> [floor |-> Max(0, b0.y + r - h), ceiling |-> Max(0, r - b1.y),
                  left |-> Max(0, r - b2.x),
                  right |-> IF b2.x - r < 0 THEN 0 ELSE Max(0, b2.x + r - w)]]

\* the respawn of the hard-clamp scripts leaves the spin alone
recoverClamp(v, b, w, h, rnd) ==
    IF b.y - radius(v) * PX > h + 400 * PX
    THEN [b EXCEPT !.x = w \div 2, !.y = h \div 4,
                   !.vx = RDiv(120 * PX * rnd, 1000), !.vy = -600 * PX]
    ELSE b

\* the hit is added to the velocity; "clampspin" adds spin from the swipe
hitClamp(v, b, hv, mv) ==
    LET b1 == [b EXCEPT !.vx = @ + hv.Jx, !.vy = @ + hv.Jy]
        tangential == RDiv(-hv.ny * mv.x + hv.nx * mv.y, 1000)
    IN  IF v = "clampspin"
        THEN [b1 EXCEPT !.spin = @ + RDiv(tangential * 25 * (MRAD \div (100 * PX)),
                                          100 * radius(v))]
        ELSE b1

-----------------------------------------------------------------------------
(* The frame callback step(now) of "impulse", "clamp" and "clampspin" *)

\* a step that is only clamped from above (C7 tells it from frameDt)
frameDtSigned(now, lst) == Min(now - lst, maxStep)

\* dt = clamp((now - last) / 1000, 0, 0.033)
frameDt(now, lst) == clamp(now - lst, 0, maxStep)

\* a cooldown that takes dt for milliseconds (C5 tells it from coolDown)
coolDownMs(cd, dt) == IF cd - 1000 * dt > 0 THEN cd - 1000 * dt ELSE 0

\* hitCooldown = Math.max(0, hitCooldown - dt)
coolDown(cd, dt) == Max(0, cd - dt)

\* what one hit test saw and did
\* (cool: the cooldown at the test, coolAfter: when the pointer section ends)
hitObs(m, b, d, cd, hit, cdAfter) ==
    [mx |-> m.x, my |-> m.y, down |-> m.down, bx |-> b.x, by |-> b.y,
     d |-> d, cool |-> cd, hit |-> hit, coolAfter |-> cdAfter]

\* the pointer section of the frame: bt is the outcome of the boundaries, b2
\* the body after the recovery
framePointer(v, s, now, dt, bt, b2) ==
    LET cd1 == coolDown(s.hitCooldown, dt)
        mv == pointerVelocity(s.mouse, s.lastMouse, now)
        hit == hitApplies(v, s.mouse, b2, cd1)
        hv == hitVector(v, s.mouse, b2, mv)
        b3 == IF ~hit THEN b2
              ELSE IF v \in ClampVariants THEN hitClamp(v, b2, hv, mv)
              ELSE hitImpulse(v, b2, hv)
    IN  [ball |-> b3,
         lastMouse |-> [x |-> s.mouse.x, y |-> s.mouse.y, t |-> now],
         hitCooldown |-> IF hit THEN hitCooldownReset(v) ELSE cd1,
         last |-> now,
         hv |-> hv, hit |-> hit,
         obs |-> [dt |-> dt, pen |-> bt.pen,
                  afterBounds |-> [x |-> bt.ball.x, y |-> bt.ball.y],
                  sub |-> <<hitObs(s.mouse, b2, dt, cd1, hit,
                                   IF hit THEN hitCooldownReset(v) ELSE cd1)>>]]

\* the recovery, then the pointer section
frameRecover(v, s, now, rnd, dt, bt) ==
    framePointer(v, s, now, dt, bt,
                 IF v \in ClampVariants
                 THEN recoverClamp(v, bt.ball, s.canvas.w, s.canvas.h, rnd)
                 ELSE recover(v, bt.ball, s.canvas.w, s.canvas.h, rnd))

\* gravity and integration, then the boundaries
frameBounds(v, b, w, h, dt) ==
    IF v \in ClampVariants
    THEN boundsClamp(v, integrateClamp(v, b, dt), w, h)
    ELSE boundsImpulse(v, integrateImpulse(v, b, dt), w, h)

\* s: [ball, mouse, lastMouse, hitCooldown, last, canvas]
stepBody(v, s, now, rnd) ==
    frameRecover(v, s, now, rnd, frameDt(now, s.last),
                 frameBounds(v, s.ball, s.canvas.w, s.canvas.h, frameDt(now, s.last)))


-----------------------------------------------------------------------------
(* Spool and IK rope of "ik" (part_001) *)

\* atan on [0, 1] (argument in thousandths), in MRAD units
AtanUnit(z) == RDiv(z * (785 + RDiv(273 * (1000 - z), 1000)), 1000)

\* Math.atan2, in MRAD units
Atan2(y, x) ==
    LET ax == Abs(x)
        ay == Abs(y)
        a == IF ax = 0 /\ ay = 0 THEN 0
             ELSE IF ax >= ay THEN AtanUnit(RDiv(ay * 1000, ax))
             ELSE HALF_PI - AtanUnit(RDiv(ax * 1000, ay))
    IN  IF x >= 0 THEN (IF y >= 0 THEN a ELSE -a)
        ELSE (IF y >= 0 THEN PI - a ELSE a - PI)

pxPerMeter == 1
\* total yarn length, in length units
L_total == 60 * pxPerMeter * PX
\* minimum wound radius, 0.6 * radius
r_core == (6 * radius("ik") * PX) \div 10
\* alpha = (radius - r_core) / L_total, as a fraction <<num, den>>
alpha == <<radius("ik") * PX - r_core, L_total>>
\* px/s cap of the feed rate
v_max_feed == 800
SEG_LEN_MIN == 6
SEG_LEN_MAX == 14
ROPE_ITERS == 5

\* a wound radius that shrinks as yarn leaves the spool (C16 tells it from
\* r_spool_of)
r_spool_shrinking(L) ==
    clamp(radius("ik") * PX - RDiv(alpha[1] * L, alpha[2]), r_core, radius("ik") * PX)

r_spool_of(L) ==
    clamp(radius("ik") * PX - RDiv(alpha[1] * (L_total - L), alpha[2]),
          r_core, radius("ik") * PX)

Node(x, y) == [x |-> x, y |-> y, px |-> x, py |-> y]

\* head pinned at the anchor plus one tail node; t is a unit vector in thousandths
initRope(rp, anchorX, anchorY, tx, ty) ==
    LET tailX == anchorX + RDiv(tx * rp.SEG_LEN, 1000)
        tailY == anchorY + RDiv(ty * rp.SEG_LEN, 1000) + 2 * PX
    IN  [rp EXCEPT !.nodes = <<Node(anchorX, anchorY), Node(tailX, tailY)>>,
                   !.ropeInited = TRUE]

\* a target without the floor of one segment (C11 tells it from
\* targetCountForLength)
targetCountFloorOnly(L, seg) == (L \div seg) + 1

\* segsNeeded = Math.max(1, Math.floor(L / SEG_LEN)); return segsNeeded + 1
targetCountForLength(L, seg) == Max(1, L \div seg) + 1

\* the new node continues the ray of the last two nodes by seg
addTailSegment(nodes, seg) ==
    LET n == Len(nodes)
        a == nodes[n - 1]
        b == nodes[n]
        dx == b.x - a.x
        dy == b.y - a.y
        d0 == Hypot(dx, dy)
        d == IF d0 = 0 THEN 1 ELSE d0
    IN  Append(nodes, Node(b.x + RDiv(dx * seg, d), b.y + RDiv(dy * seg, d)))

\* growth by at most one node (C10 tells it from growTo)
growOne(nodes, target, seg) ==
    IF Len(nodes) < target THEN addTailSegment(nodes, seg) ELSE nodes

RECURSIVE growTo(_, _, _)
growTo(nodes, target, seg) ==
    IF Len(nodes) < target THEN growTo(addTailSegment(nodes, seg), target, seg)
    ELSE nodes

ensureRopeForLength(rp, L) ==
    LET seg == clamp(rp.SEG_LEN, SEG_LEN_MIN * PX, SEG_LEN_MAX * PX)
    IN  [rp EXCEPT !.SEG_LEN = seg,
                   !.nodes = growTo(rp.nodes, targetCountForLength(L, seg), seg)]

\* grav * dt * dt * 0.4, in length units
ropeGravity(dt) == RDiv(((grav("ik") * PX * 4) \div 10) * dt * dt, SEC * SEC)

\* Verlet prediction of every node but the pinned head; ROPE_DAMP = 0.985
integrateRope(nodes, dt) ==
    [i \in 1..Len(nodes) |->
        IF i = 1 THEN nodes[i]
        ELSE LET n == nodes[i]
                 vx == RDiv((n.x - n.px) * 985, 1000)
                 vy == RDiv((n.y - n.py) * 985, 1000) + ropeGravity(dt)
             IN  [x |-> n.x + vx, y |-> n.y + vy, px |-> n.x, py |-> n.y]]

\* the point at distance seg from `from` on the ray towards `to`
\* (d = hypot || 1e-6: coincident points stay together)
reach(from, to, seg) ==
    LET nx == to.x - from.x
        ny == to.y - from.y
        d == Hypot(nx, ny)
    IN  IF d = 0 THEN [x |-> from.x, y |-> from.y]
        ELSE [x |-> from.x + RDiv(nx * seg, d), y |-> from.y + RDiv(ny * seg, d)]

\* for i = ti - 1 down to 0: nodes[i] at seg from nodes[i + 1]
RECURSIVE forwardReach(_, _, _)
forwardReach(nodes, i, seg) ==
    IF i < 1 THEN nodes
    ELSE LET q == reach(nodes[i + 1], nodes[i], seg)
         IN  forwardReach([nodes EXCEPT ![i].x = q.x, ![i].y = q.y], i - 1, seg)

\* for i = 1 up to ti: nodes[i] at seg from nodes[i - 1]
RECURSIVE backwardReach(_, _, _)
backwardReach(nodes, i, seg) ==
    IF i > Len(nodes) THEN nodes
    ELSE LET q == reach(nodes[i - 1], nodes[i], seg)
         IN  backwardReach([nodes EXCEPT ![i].x = q.x, ![i].y = q.y], i + 1, seg)

\* a backward reach that starts from wherever the forward reach left the head
\* (C9 tells it from repin)
repinSkipped(nodes, anchorX, anchorY) == nodes

\* re-pin of the head at the start of the backward reach
repin(nodes, anchorX, anchorY) == [nodes EXCEPT ![1].x = anchorX, ![1].y = anchorY]

\* one FABRIK iteration: tail to its target, forward reach, re-pin, backward reach
fabrikIter(nodes, anchorX, anchorY, tgt, seg) ==
    LET ti == Len(nodes)
        n1 == [nodes EXCEPT ![ti].x = tgt.x, ![ti].y = tgt.y]
        n2 == forwardReach(n1, ti - 1, seg)
        n3 == repin(n2, anchorX, anchorY)
    IN  backwardReach(n3, 2, seg)

RECURSIVE fabrik(_, _, _, _, _, _)
fabrik(nodes, anchorX, anchorY, tgt, seg, iter) ==
    IF iter >= ROPE_ITERS THEN nodes
    ELSE fabrik(fabrikIter(nodes, anchorX, anchorY, tgt, seg),
                anchorX, anchorY, tgt, seg, iter + 1)

\* the head is pinned (position and previous position), then ROPE_ITERS
\* iterations towards the predicted tail
satisfyRope(nodes, anchorX, anchorY, seg) ==
    LET pinned == [nodes EXCEPT ![1] = Node(anchorX, anchorY)]
    IN  IF Len(nodes) < 2 THEN pinned
        ELSE fabrik(pinned, anchorX, anchorY,
                    [x |-> nodes[Len(nodes)].x, y |-> nodes[Len(nodes)].y], seg, 0)


-----------------------------------------------------------------------------
(* Disk and wound chain of "disk" (game.js, second module) *)

\* the particles of the chain that the model keeps (the script has 500)
TOTAL_POINTS == 7
\* rest length between particles: totalLength / (TOTAL_POINTS - 1) of the
\* script, 60 * 120 px over 499 links
SEG_LEN == RDiv(60 * 120 * PX, 500 - 1)
SUBSTEPS == 2
\* freeCount of a fresh chain
FREE_START == 4

\* fricAir = 0.997, fricGround = 0.015
fricAir(x) == RDiv(x * 997, 1000)
fricGround(x) == RDiv(x * (1000 - 15), 1000)

\* grav * dt * dt, in length units
verletGravity(dt) == RDiv(grav("disk") * PX * dt * dt, SEC * SEC)

\* reflect the previous position about the clamped position: p + (prev - p) * -e
reflect(p, prev, e) == p + RDiv((prev - p) * (-e), 100)

\* Verlet prediction of the disk
diskVerlet(b, dt) ==
    [b EXCEPT !.px = b.x, !.py = b.y,
              !.x = @ + fricAir(b.x - b.px),
              !.y = @ + fricAir(b.y - b.py) + verletGravity(dt),
              !.grounded = FALSE]

\* one clamp of coordinate f (previous position pf) of a body of radius r at
\* the bound: side 1 is "p[f] + r > bound", side -1 is "p[f] - r < bound"; the
\* previous position is reflected with restitution e
clampBounce(p, f, pf, side, bound, e, r) ==
    IF side * (p[f] + side * r - bound) > 0
    THEN [p EXCEPT ![f] = bound - side * r, ![pf] = reflect(bound - side * r, p[pf], e)]
    ELSE p

\* the floor also marks the disk as grounded
diskFloor(b, h) ==
    [clampBounce(b, "y", "py", 1, h, rest("disk"), radius("disk") * PX)
        EXCEPT !.grounded = b.y + radius("disk") * PX > h]

\* rolling without slipping and ground friction
diskRoll(b) ==
    IF b.grounded
    THEN [b EXCEPT !.angle = @ + RDiv((b.x - b.px) * MRAD, radius("disk") * PX),
                   !.px = b.x - fricGround(b.x - b.px)]
    ELSE b

integrateDisk(b, w, h, dt) ==
    LET r == radius("disk") * PX
        e == wallRest("disk")
    IN  diskRoll(clampBounce(clampBounce(clampBounce(diskFloor(diskVerlet(b, dt), h),
                     "y", "py", -1, 0, e, r), "x", "px", -1, 0, e, r), "x", "px", 1, w, e, r))

\* world position of a local (disk frame) anchor
worldFromLocal(b, l) ==
    LET cosA == Cos(b.angle)
        sinA == Sin(b.angle)
    IN  [x |-> b.x + RDiv(l.x * cosA - l.y * sinA, MRAD),
         y |-> b.y + RDiv(l.x * sinA + l.y * cosA, MRAD)]

\* particle i of the script is element i + 1 of points; the wound ones are
\* the elements above freeCount
\* wound particles left where they were (C17 tells it from
\* setWoundWorldPositions)
setWoundSkipped(rp, b) == rp

setWoundWorldPositions(rp, b) ==
    [rp EXCEPT !.points =
        [i \in 1..TOTAL_POINTS |->
            IF i > rp.freeCount
            THEN LET q == worldFromLocal(b, rp.woundLocal[i]) IN Node(q.x, q.y)
            ELSE rp.points[i]]]

\* Verlet step of one free particle with the four clamps
integrateParticle(p, w, h, dt) ==
    LET p0 == [x |-> p.x + (p.x - p.px), y |-> p.y + (p.y - p.py) + verletGravity(dt),
               px |-> p.x, py |-> p.y]
        e == -wallRest("disk")
    IN  clampBounce(clampBounce(clampBounce(clampBounce(p0,
            "y", "py", 1, h, -rest("disk"), 0), "y", "py", -1, 0, e, 0),
            "x", "px", -1, 0, e, 0), "x", "px", 1, w, e, 0)

integrateTail(rp, w, h, dt) ==
    [rp EXCEPT !.points =
        [i \in 1..TOTAL_POINTS |->
            IF i <= rp.freeCount THEN integrateParticle(rp.points[i], w, h, dt)
            ELSE rp.points[i]]]

\* the link between elements i - 1 and i (script particles i - 2 and i - 1);
\* shares in halves: 0, 1 or 2
\* a link that moves both ends by half, wound or not (C19 tells it from
\* solveLink)
solveLinkShared(pts, i, fc, h) ==
    LET a == pts[i - 1]
        b == pts[i]
        d == Hypot(b.x - a.x, b.y - a.y)
        cx == IF d = 0 THEN 0 ELSE RDiv((b.x - a.x) * (d - SEG_LEN), 2 * d)
        cy == IF d = 0 THEN 0 ELSE RDiv((b.y - a.y) * (d - SEG_LEN), 2 * d)
    IN  [pts EXCEPT ![i - 1].x = a.x + cx, ![i - 1].y = Min(h, a.y + cy),
                    ![i].x = b.x - cx, ![i].y = Min(h, b.y - cy)]

solveLink(pts, i, fc, h) ==
    LET a == pts[i - 1]
        b == pts[i]
        dx == b.x - a.x
        dy == b.y - a.y
        d == Hypot(dx, dy)
        aWound == i - 1 > fc
        bWound == i > fc
        moveA == IF aWound THEN 0 ELSE IF bWound THEN 2 ELSE 1
        moveB == IF bWound THEN 0 ELSE IF aWound THEN 2 ELSE 1
        cx(m) == IF d = 0 THEN 0 ELSE RDiv(dx * (d - SEG_LEN) * m, 2 * d)
        cy(m) == IF d = 0 THEN 0 ELSE RDiv(dy * (d - SEG_LEN) * m, 2 * d)
        ay == a.y + cy(moveA)
        by == b.y - cy(moveB)
    IN  [pts EXCEPT ![i - 1].x = a.x + cx(moveA),
                    ![i - 1].y = IF ~aWound /\ ay > h THEN h ELSE ay,
                    ![i].x = b.x - cx(moveB),
                    ![i].y = IF ~bWound /\ by > h THEN h ELSE by]

RECURSIVE solveChain(_, _, _, _)
solveChain(pts, i, fc, h) ==
    IF i > TOTAL_POINTS THEN pts ELSE solveChain(solveLink(pts, i, fc, h), i + 1, fc, h)

RECURSIVE solveIters(_, _, _, _)
solveIters(pts, iter, fc, h) ==
    IF iter >= ROPE_ITERS THEN pts ELSE solveIters(solveChain(pts, 2, fc, h), iter + 1, fc, h)

satisfyConstraints(rp, h) ==
    [rp EXCEPT !.points = solveIters(rp.points, 0, rp.freeCount, h)]

\* a promotion that wraps around at the last particle instead of stopping
\* (C1 tells it from maybeFreeNext)
maybeFreeNextWrap(fc, bySegments) ==
    IF bySegments <= 0 THEN fc ELSE (fc + bySegments) % (TOTAL_POINTS - 1)

\* promote up to bySegments particles; one stays on the disk
RECURSIVE maybeFreeNext(_, _)
maybeFreeNext(fc, bySegments) ==
    IF bySegments <= 0 \/ fc >= TOTAL_POINTS - 1 THEN fc
    ELSE maybeFreeNext(fc + 1, bySegments - 1)

\* the stretch of the boundary link decides how many particles are promoted
tensionExtra(d) == Min(4, ((300 * d - 405 * SEG_LEN) \div (100 * SEG_LEN)) + 1)

\* a substep without the release on tension (C18 tells it from tensionRelease)
tensionReleaseOff(rp, b) == rp

tensionRelease(rp, b) ==
    IF rp.freeCount <= 0 THEN rp
    ELSE LET pa == rp.points[rp.freeCount]
             pb == rp.points[rp.freeCount + 1]
             d == Hypot(pb.x - pa.x, pb.y - pa.y)
         IN  IF 100 * d > 135 * SEG_LEN
             THEN setWoundWorldPositions(
                      [rp EXCEPT !.freeCount = maybeFreeNext(rp.freeCount, tensionExtra(d))],
                      b)
             ELSE rp

\* the segments of a hit without the clamp (C30 tells it from hitSegments)
hitSegmentsUnclamped(Jx, Jy) == Hypot(Jx, Jy) \div (25 * PX)

\* segments freed by a hit of impulse (Jx, Jy): clamp(floor(Jmag / 25), 1, 8)
hitSegments(Jx, Jy) == clamp(Hypot(Jx, Jy) \div (25 * PX), 1, 8)

\* the hit changes the previous position (Verlet velocity), J * (1 / 60)
hitDisk(b, hv) ==
    LET vx == (b.x - b.px) + RDiv(hv.Jx, 60)
        vy == (b.y - b.py) + RDiv(hv.Jy, 60)
    IN  [b EXCEPT !.px = b.x - vx, !.py = b.y - vy]


\* --- construction of the chain ---

\* layers of buildWoundPath: tilt (MRAD), count, wobR and wobT (thousandths)
layers == << [tilt |-> -350, count |-> 2, wobR |-> 60, wobT |-> 200],
             [tilt |-> 550, count |-> 2, wobR |-> 50, wobT |-> 180],
             [tilt |-> 1100, count |-> 2, wobR |-> 50, wobT |-> 150] >>

\* the values the loop "for (a = -PI * 0.98; a <= PI * 0.98; a += PI)" takes
bandAngles == << RDiv(-98 * PI, 100), RDiv(-98 * PI, 100) + PI >>

\* pushIfFar without the distance test (C29 tells it from pushIfFar)
pushAlways(locals, p) == Append(locals, p)

pushIfFar(locals, p) ==
    IF Len(locals) = 0
       \/ Hypot(p.x - locals[Len(locals)].x, p.y - locals[Len(locals)].y) >= SEG_LEN
    THEN Append(locals, p) ELSE locals

\* one point of a tilted band
bandTwist(x1, y1, jitter) ==
    LET ang == Atan2(y1, x1) + RDiv(jitter * 15, 100)
        rr == Hypot(x1, y1)
    IN  [x |-> RDiv(rr * Cos(ang), MRAD), y |-> RDiv(rr * Sin(ang), MRAD)]

\* (x0, y0) normalised to the radius r, then twisted by the jitter
bandScale(x0, y0, r, jitter) ==
    LET len0 == Hypot(x0, y0)
        len == IF len0 = 0 THEN 1 ELSE len0
    IN  bandTwist(RDiv(x0 * r, len), RDiv(y0 * r, len), jitter)

\* one point of a tilted band
bandPoint(L, k, a) ==
    LET maxR == (radius("disk") - 2) * PX
        minR == radius("disk") * PX
        phase == RDiv((2 * k + 1) * 7 * PI, 20 * L.count)
        t == RDiv((a + PI) * 1000, 2 * PI)
        inward == 250 + RDiv(750 * Sin(RDiv(t * PI, 1000)), MRAD)
    IN  bandScale(RDiv(maxR * RDiv(Cos(a) * Cos(L.tilt + phase)
                                   - Sin(a) * Sin(L.tilt + phase), MRAD), MRAD),
                  RDiv(maxR * RDiv(Cos(a) * Sin(L.tilt + phase)
                                   + Sin(a) * Cos(L.tilt + phase), MRAD), MRAD),
                  maxR - RDiv((maxR - minR) * RDiv(L.wobR * inward, 1000), 1000),
                  RDiv((RDiv(Sin(RDiv((a + phase) * 2371, 100)), 2) + 500) * L.wobT, 1000))

\* the candidates of the three nested loops, in their order
bandCandidates ==
    LET perLayer(L) == [j \in 1..(L.count * Len(bandAngles)) |->
                           bandPoint(L, (j - 1) \div Len(bandAngles),
                                     bandAngles[((j - 1) % Len(bandAngles)) + 1])]
    IN  perLayer(layers[1]) \o perLayer(layers[2]) \o perLayer(layers[3])

RECURSIVE pushAll(_, _, _)
pushAll(locals, cands, i) ==
    IF i > Len(cands) THEN locals ELSE pushAll(pushIfFar(locals, cands[i]), cands, i + 1)

\* the candidate of one pass of the sprinkle loop: a draw is a pair of
\* Math.random() values in thousandths, <<angle, radius>>
sprinklePoint(draw) ==
    LET maxR == (radius("disk") - 2) * PX
        minR == radius("disk") * PX
        ang == RDiv(draw[1] * TWO_PI, 1000)
        rr == minR + RDiv((maxR - minR) * draw[2], 1000)
    IN  [x |-> RDiv(rr * Cos(ang), MRAD), y |-> RDiv(rr * Sin(ang), MRAD)]

\* "while (locals.length < TOTAL_POINTS)" over the draws given
RECURSIVE sprinkle(_, _, _)
sprinkle(locals, draws, i) ==
    IF Len(locals) >= TOTAL_POINTS \/ i > Len(draws) THEN locals
    ELSE sprinkle(pushIfFar(locals, sprinklePoint(draws[i])), draws, i + 1)

\* the local anchors: the seed on the rim at exitAngle, the bands, the sprinkle
\* the array of TOTAL_POINTS anchors
padLocals(locals) ==
    [i \in 1..TOTAL_POINTS |-> IF i <= Len(locals) THEN locals[i] ELSE locals[Len(locals)]]

buildWoundPath(exitAngle, draws) ==
    LET maxR == (radius("disk") - 2) * PX
        seed == [x |-> RDiv(maxR * Cos(exitAngle), MRAD),
                 y |-> RDiv(maxR * Sin(exitAngle), MRAD)]
    IN  padLocals(sprinkle(pushAll(pushIfFar(<<>>, seed), bandCandidates, 1), draws, 1))

\* the chain of a fresh script: the wound particles on their anchors, particle
\* freeCount - 1 and particle 0 on the tangent, the others where the array
\* was created, at (0, 0)
placeChain(b, exitAngle, wl) ==
    LET fc == FREE_START
        tx == -Sin(exitAngle)
        ty == Cos(exitAngle)
        head == worldFromLocal(b, wl[fc + 1])
        p1x == head.x + RDiv(tx * SEG_LEN, MRAD)
        p1y == head.y + RDiv(ty * SEG_LEN, MRAD) + 2 * PX
        p0x == p1x + RDiv(tx * SEG_LEN, MRAD)
        p0y == p1y + RDiv(ty * SEG_LEN, MRAD) + 2 * PX
        wound == [i \in 1..TOTAL_POINTS |->
                    IF i > fc THEN LET q == worldFromLocal(b, wl[i]) IN Node(q.x, q.y)
                    ELSE Node(0, 0)]
        pts == [[wound EXCEPT ![fc] = Node(p1x, p1y)] EXCEPT ![1] = Node(p0x, p0y)]
    IN  [points |-> pts, woundLocal |-> wl, freeCount |-> fc, exitAngle |-> exitAngle]

initChain(b, exitAngle, draws) == placeChain(b, exitAngle, buildWoundPath(exitAngle, draws))

\* --- the frame ---

\* handleMouseImpulses(dt, now) on st: [ball, rope, lastMouse, hitCooldown, sub]
handleMouseImpulses(st, m, dt, now) ==
    LET cd1 == coolDown(st.hitCooldown, dt)
        mv == pointerVelocity(m, st.lastMouse, now)
        hit == hitApplies("disk", m, st.ball, cd1)
        hv == hitVector("disk", m, st.ball, mv)
    IN  [ball |-> IF hit THEN hitDisk(st.ball, hv) ELSE st.ball,
         rope |-> IF hit
                  THEN [st.rope EXCEPT !.freeCount = maybeFreeNext(@, hitSegments(hv.Jx, hv.Jy))]
                  ELSE st.rope,
         lastMouse |-> [x |-> m.x, y |-> m.y, t |-> now],
         hitCooldown |-> IF hit THEN hitCooldownReset("disk") ELSE cd1,
         sub |-> Append(st.sub,
                        hitObs(m, st.ball, dt, cd1, hit,
                               IF hit THEN hitCooldownReset("disk") ELSE cd1)
                        @@ [fcRel |-> st.rope.freeCount,
                            segs |-> IF hit THEN hitSegments(hv.Jx, hv.Jy) ELSE 0,
                            fc |-> IF hit
                                   THEN maybeFreeNext(st.rope.freeCount,
                                                      hitSegments(hv.Jx, hv.Jy))
                                   ELSE st.rope.freeCount])]

\* what the substep that ended in out saw of its chain: the pose b1 of the
\* disk, the chain r2 that satisfyConstraints found, the chain r3 that
\* tensionRelease found and the chain r4 it left to handleMouseImpulses
promotionObs(out, b1, r2, r3, r4) ==
    [out EXCEPT !.sub[Len(out.sub)] =
        @ @@ [pose |-> [x |-> b1.x, y |-> b1.y, angle |-> b1.angle],
              atSolve |-> r2.points,
              fcTension |-> r3.freeCount,
              atTension |-> r3.points,
              atHit |-> r4.points,
              afterHit |-> out.rope.points]]

\* one substep: disk, glue, tail, constraints, tension release, pointer
substepDisk(st, m, w, h, dt, now) ==
    LET b1 == integrateDisk(st.ball, w, h, dt)
        r1 == setWoundWorldPositions(st.rope, b1)
        r2 == integrateTail(r1, w, h, dt)
        r3 == satisfyConstraints(r2, h)
        r4 == tensionRelease(r3, b1)
    IN  promotionObs(handleMouseImpulses([st EXCEPT !.ball = b1, !.rope = r4], m, dt, now),
                     b1, r2, r3, r4)

RECURSIVE substepsDisk(_, _, _, _, _, _, _)
substepsDisk(st, m, w, h, dt, now, k) ==
    IF k >= Max(1, SUBSTEPS) THEN st
    ELSE substepsDisk(substepDisk(st, m, w, h, dt, now), m, w, h, dt, now, k + 1)

\* the outcome of a frame whose substeps left st
frameOfDisk(s, now, dt, st) ==
    [ball |-> st.ball, rope |-> st.rope, lastMouse |-> st.lastMouse,
     hitCooldown |-> st.hitCooldown, last |-> now,
     obs |-> [dt |-> dt, sub |-> st.sub, fc0 |-> s.rope.freeCount]]

\* s: [ball, rope, mouse, lastMouse, hitCooldown, last, canvas]
stepDisk(s, now) ==
    frameOfDisk(s, now, frameDt(now, s.last),
                substepsDisk([ball |-> s.ball, rope |-> s.rope, lastMouse |-> s.lastMouse,
                              hitCooldown |-> s.hitCooldown, sub |-> <<>>],
                             s.mouse, s.canvas.w, s.canvas.h,
                             RDiv(frameDt(now, s.last), Max(1, SUBSTEPS)), now, 0))


-----------------------------------------------------------------------------
(* The frame callback step(now) of "ik" *)

\* the angle difference wrapped to [-PI, PI)
wrapAngle(a) == ((((a + PI) % TWO_PI) + TWO_PI) % TWO_PI) - PI

\* spool coupling of a hit: the tail is kicked along the exit tangent and the
\* exit angle is nudged towards the hit angle
hitSpool(rp, b, hv) ==
    LET worldExitAngle == rp.exitAngle + b.angle
        tx == -Sin(worldExitAngle)
        ty == Cos(worldExitAngle)
        J_along_exit == RDiv(hv.Jx * tx + hv.Jy * ty, MRAD)
        kick == RDiv(J_along_exit * 2, 100)
        tail == Len(rp.nodes)
        nodes1 == IF rp.ropeInited
                  THEN [rp.nodes EXCEPT ![tail].x = @ - RDiv(tx * kick, MRAD),
                                        ![tail].y = @ - RDiv(ty * kick, MRAD)]
                  ELSE rp.nodes
        hitLocal == Atan2(hv.ny, hv.nx) - b.angle
        dAng == wrapAngle(hitLocal - rp.exitAngle)
    IN  [rp EXCEPT !.nodes = nodes1, !.exitAngle = @ + RDiv(dAng * 5, 100)]

\* the anchor on the wound radius at the exit angle, n and t in thousandths
anchorOf(rp, b) ==
    LET r_spool == r_spool_of(rp.L_free)
        a == rp.exitAngle + b.angle
        nx_e == Cos(a)
        ny_e == Sin(a)
    IN  [x |-> b.x + RDiv(nx_e * r_spool, MRAD), y |-> b.y + RDiv(ny_e * r_spool, MRAD),
         rx |-> RDiv(nx_e * r_spool, MRAD), ry |-> RDiv(ny_e * r_spool, MRAD),
         tx |-> -ny_e, ty |-> nx_e]

\* a feed that may be negative (C2 tells it from feedRate)
feedRateSigned(b, an) ==
    LET cv == contactVelocity(b.vx, b.vy, b.spin, an.rx, an.ry)
        v_ball_t == RDiv(cv.cx * an.tx + cv.cy * an.ty, MRAD)
    IN  clamp(v_ball_t, -v_max_feed * PX, v_max_feed * PX)

\* feed = clamp(v_ball_t, 0, v_max_feed): the surface speed along the tangent
feedRate(b, an) ==
    LET cv == contactVelocity(b.vx, b.vy, b.spin, an.rx, an.ry)
        v_ball_t == RDiv(cv.cx * an.tx + cv.cy * an.ty, MRAD)
    IN  clamp(v_ball_t, 0, v_max_feed * PX)

\* a feed that takes every frame for 1 / 60 s (C13 tells it from feedLength)
feedLengthNominal(L, feed, dt) == clamp(L + RDiv(feed, 60), 0, L_total)

\* L_free = clamp(L_free + feed * dt, 0, L_total)
feedLength(L, feed, dt) == clamp(L + RDiv(feed * dt, SEC), 0, L_total)

\* spool mechanics and rope dynamics of one frame
\* rope dynamics: the exit angle turns with the spin, Verlet prediction,
\* FABRIK towards the anchor; rp2 is the rope after the growth of this frame
ropeDynamics(rp2, b, dt, an) ==
    LET pred == integrateRope(rp2.nodes, dt)
    IN  [rope |-> [rp2 EXCEPT !.exitAngle = @ + RDiv(b.spin * dt, SEC),
                              !.nodes = satisfyRope(pred, an.x, an.y, rp2.SEG_LEN)],
         anchor |-> [x |-> an.x, y |-> an.y],
         exit0 |-> rp2.exitAngle, grown |-> rp2.nodes, pred |-> pred]

\* first-frame initialisation of the rope, feed, growth of the node list
spoolFeed(rp, b, dt, an) ==
    LET rp1 == IF ~rp.ropeInited THEN initRope(rp, an.x, an.y, an.tx, an.ty) ELSE rp
        L1 == feedLength(rp1.L_free, feedRate(b, an), dt)
    IN  ropeDynamics(ensureRopeForLength([rp1 EXCEPT !.L_free = L1], L1), b, dt, an)

\* spool mechanics and rope dynamics of one frame
spoolStep(rp, b, dt) == spoolFeed(rp, b, dt, anchorOf(rp, b))

\* a frame in which the length fed to the rope brakes the spin of the body
\* (C6 tells it from frameOfIK)
frameOfIKBraked(s, now, sb, sp) ==
    [ball |-> [sb.ball EXCEPT !.spin = @ - (sp.rope.L_free - s.rope.L_free)],
     rope |-> sp.rope, lastMouse |-> sb.lastMouse,
     hitCooldown |-> sb.hitCooldown, last |-> now,
     obs |-> [dt |-> sb.obs.dt, pen |-> sb.obs.pen, afterBounds |-> sb.obs.afterBounds,
              sub |-> sb.obs.sub, anchor |-> sp.anchor,
              L0 |-> s.rope.L_free, exit0 |-> sp.exit0,
              count0 |-> Len(s.rope.nodes), inited0 |-> s.rope.ropeInited,
              grown |-> sp.grown, pred |-> sp.pred]]

\* the spool section of the frame; sb is the outcome of the body's frame
frameOfIK(s, now, sb, sp) ==
    [ball |-> sb.ball, rope |-> sp.rope, lastMouse |-> sb.lastMouse,
     hitCooldown |-> sb.hitCooldown, last |-> now,
     obs |-> [dt |-> sb.obs.dt, pen |-> sb.obs.pen, afterBounds |-> sb.obs.afterBounds,
              sub |-> sb.obs.sub, anchor |-> sp.anchor,
              L0 |-> s.rope.L_free, exit0 |-> sp.exit0,
              count0 |-> Len(s.rope.nodes), inited0 |-> s.rope.ropeInited,
              grown |-> sp.grown, pred |-> sp.pred]]

\* the spool coupling of a hit, then the spool section
frameSpool(s, now, sb) ==
    frameOfIK(s, now, sb,
              spoolStep(IF sb.hit THEN hitSpool(s.rope, sb.ball, sb.hv) ELSE s.rope,
                        sb.ball, sb.obs.dt))

\* the frame of "ik" after the body's, and the frame of the scripts without
\* a rope
frameRope(v, s, now, sb) ==
    IF v = "ik" THEN frameSpool(s, now, sb)
    ELSE [ball |-> sb.ball, rope |-> s.rope, lastMouse |-> sb.lastMouse,
          hitCooldown |-> sb.hitCooldown, last |-> sb.last, obs |-> sb.obs]

-----------------------------------------------------------------------------
(* The state machine *)

\* frames explored with every input; after them a run goes on, up to
\* MaxDeepTicks frames, only while all its frames came at the slow rate
MaxTicks == 2
MaxDeepTicks == 8

\* c.clientWidth, c.clientHeight in px: a small window, where the body meets
\* the walls within a few frames of its spawn
canvasW == 100
canvasH == 140

\* intervals between frame timestamps: decreasing, equal, about 60 FPS, slow
SlowDelta == 40 * MS
FrameDeltas == {-4 * MS, 0, 16 * MS, SlowDelta}

\* Math.random() * 2 - 1, in thousandths
Rnds == {-1000, 0, 999}

\* Math.random() * Math.PI * 2: the exit angles a script may start with
ExitAngles == {0, 2000}

\* where pointer events arrive: 15 px above the spawn point
Pointers(cv) == { [x |-> cv.w \div 2, y |-> cv.h \div 4 - 15 * PX] }

State == [ball |-> ball, rope |-> rope, mouse |-> mouse, lastMouse |-> lastMouse,
          hitCooldown |-> hitCooldown, last |-> last, canvas |-> canvas]

NoRope == [none |-> TRUE]

\* the body each script constructs
spawnBall(v, cv, rnd) ==
    CASE v = "disk" ->
           [x |-> cv.w \div 2, y |-> cv.h \div 4, px |-> cv.w \div 2 - RDiv(120 * PX, 60),
            py |-> cv.h \div 4, angle |-> 0, pang |-> 0, grounded |-> FALSE]
      [] v = "clamp" ->
           [x |-> cv.w \div 2, y |-> cv.h \div 4, vx |-> RDiv(140 * PX * rnd, 1000), vy |-> 0]
      [] OTHER ->
           [x |-> cv.w \div 2, y |-> cv.h \div 4, vx |-> RDiv(140 * PX * rnd, 1000), vy |-> 0,
            angle |-> 0, spin |-> 0]

\* the rope each script constructs
spawnRope(v, b, exitAngle) ==
    CASE v = "disk" -> initChain(b, exitAngle, <<>>)
      [] v = "ik" -> [L_free |-> 0, exitAngle |-> exitAngle, nodes |-> <<>>,
                      ropeInited |-> FALSE, SEG_LEN |-> 10 * PX]
      [] OTHER -> NoRope

InitHist == [ticks |-> 0, steady |-> TRUE, simTime |-> 0, t0 |-> 0, mono |-> TRUE,
             since |-> -1, prevHits |-> 0]
InitObs == [dt |-> 0, sub |-> <<>>, hits |-> 0, sinceAtHit |-> -1, frames |-> 0,
            now |-> 0, last0 |-> 0]

InitProgram ==
    /\ variant \in Variants
    /\ canvas = [w |-> canvasW * PX, h |-> canvasH * PX]
    /\ \E rnd \in (IF variant = "disk" THEN {0} ELSE Rnds) :
          ball = spawnBall(variant, canvas, rnd)
    /\ \E ea \in (IF variant \in {"disk", "ik"} THEN ExitAngles ELSE {0}) :
          rope = spawnRope(variant, ball, ea)
    /\ mouse = [x |-> 0, y |-> 0, down |-> FALSE]
    /\ lastMouse = [x |-> 0, y |-> 0, t |-> 0]
    /\ hitCooldown = 0
    /\ last = 0
    /\ rafPending = 1
    /\ obs = InitObs
    /\ hist = InitHist

NoShadow == [none |-> TRUE]

Init == InitProgram /\ shadow = NoShadow

\* --- pointer and touch handlers ---

setMouse(m, p) == [m EXCEPT !.x = p.x, !.y = p.y]

InputOpen == hist.ticks < MaxTicks

MouseMove(p) ==
    /\ InputOpen
    /\ mouse' = setMouse(mouse, p)
    /\ UNCHANGED <<variant, canvas, ball, lastMouse, hitCooldown, last, rafPending,
                   rope, obs, hist, shadow>>

\* a handler that also stamps lastMouse (C8 tells it from MouseDown)
MouseDownStamped(p) ==
    /\ hist.ticks < MaxTicks
    /\ mouse' = [x |-> p.x, y |-> p.y, down |-> TRUE]
    /\ lastMouse' = [x |-> p.x, y |-> p.y, t |-> last]
    /\ UNCHANGED <<variant, canvas, ball, hitCooldown, last, rafPending,
                   rope, obs, hist, shadow>>

MouseDown(p) ==
    /\ InputOpen
    /\ mouse' = setMouse([mouse EXCEPT !.down = TRUE], p)
    /\ UNCHANGED <<variant, canvas, ball, lastMouse, hitCooldown, last, rafPending,
                   rope, obs, hist, shadow>>

MouseUp ==
    /\ InputOpen
    /\ mouse' = [mouse EXCEPT !.down = FALSE]
    /\ UNCHANGED <<variant, canvas, ball, lastMouse, hitCooldown, last, rafPending,
                   rope, obs, hist, shadow>>

TouchStart(p) ==
    /\ InputOpen
    /\ mouse' = [setMouse(mouse, p) EXCEPT !.down = TRUE]
    /\ UNCHANGED <<variant, canvas, ball, lastMouse, hitCooldown, last, rafPending,
                   rope, obs, hist, shadow>>

TouchMove(p) ==
    /\ InputOpen
    /\ mouse' = setMouse(mouse, p)
    /\ UNCHANGED <<variant, canvas, ball, lastMouse, hitCooldown, last, rafPending,
                   rope, obs, hist, shadow>>

TouchEnd ==
    /\ InputOpen
    /\ mouse' = [mouse EXCEPT !.down = FALSE]
    /\ UNCHANGED <<variant, canvas, ball, lastMouse, hitCooldown, last, rafPending,
                   rope, obs, hist, shadow>>

\* --- the frame callback ---

\* the frame of each script
stepOf(v, s, now, rnd) ==
    IF v = "disk" THEN stepDisk(s, now)
    ELSE frameRope(v, s, now, stepBody(v, s, now, rnd))

\* time subtracted from the cooldown since the last hit (-1: no hit yet),
\* through the hit tests sub[i..] of a frame; capped at cap
RECURSIVE sinceAfter(_, _, _, _)
sinceAfter(sub, i, since, cap) ==
    IF i > Len(sub) THEN since
    ELSE LET s1 == IF since < 0 THEN since ELSE Min(cap, since + sub[i].d)
         IN  sinceAfter(sub, i + 1, IF sub[i].hit THEN 0 ELSE s1, cap)

\* the least time that had been subtracted since the previous hit when a hit
\* of this frame was applied (-1: no hit in the frame, or no previous hit)
RECURSIVE sinceAtHits(_, _, _, _)
sinceAtHits(sub, i, since, cap) ==
    IF i > Len(sub) THEN -1
    ELSE LET s1 == IF since < 0 THEN since ELSE Min(cap, since + sub[i].d)
             rest1 == sinceAtHits(sub, i + 1, IF sub[i].hit THEN 0 ELSE s1, cap)
         IN  IF sub[i].hit /\ s1 >= 0
             THEN (IF rest1 >= 0 THEN Min(s1, rest1) ELSE s1)
             ELSE rest1

hitCount(sub) == Cardinality({i \in 1..Len(sub) : sub[i].hit})

\* requestAnimationFrame(step) at the end of the callback
requestAnimationFrame(pending) == pending + 1

\* the assignments of a frame whose outcome is r
commitFrame(now, r) ==
    /\ ball' = r.ball
    /\ rope' = r.rope
    /\ lastMouse' = r.lastMouse
    /\ hitCooldown' = r.hitCooldown
    /\ last' = r.last
    /\ rafPending' = requestAnimationFrame(rafPending - 1)
    /\ obs' = r.obs @@ [hits |-> hitCount(r.obs.sub),
                         sinceAtHit |-> sinceAtHits(r.obs.sub, 1, hist.since,
                                                    hitCooldownReset(variant)),
                         frames |-> 1, now |-> now, last0 |-> last]
    /\ hist' = [ticks |-> hist.ticks + 1,
                steady |-> hist.steady /\ now - last = SlowDelta,
                simTime |-> hist.simTime + r.obs.dt,
                t0 |-> hist.t0,
                mono |-> hist.mono /\ now >= last,
                since |-> sinceAfter(r.obs.sub, 1, hist.since, hitCooldownReset(variant)),
                prevHits |-> obs.hits]

\* a requested frame may run
frameDue(now) ==
    /\ rafPending > 0
    /\ \/ hist.ticks < MaxTicks
       \/ /\ hist.ticks < MaxDeepTicks
          /\ hist.steady
          /\ now - last = SlowDelta

Step(now, rnd) ==
    /\ frameDue(now)
    /\ commitFrame(now, stepOf(variant, State, now, rnd))
    /\ UNCHANGED <<variant, canvas, mouse, shadow>>

Next ==
    \/ \E p \in Pointers(canvas) : MouseMove(p)
    \/ \E p \in Pointers(canvas) : MouseDown(p)
    \/ MouseUp
    \/ \E p \in Pointers(canvas) : TouchStart(p)
    \/ \E p \in Pointers(canvas) : TouchMove(p)
    \/ TouchEnd
    \/ \E d \in FrameDeltas, rnd \in Rnds : Step(last + d, rnd)

Spec == Init /\ [][Next]_vars

-----------------------------------------------------------------------------
(* Two runs of a rope script on the same inputs *)

RopeVariants == {"disk", "ik"}

\* the ropes the second run may start with: the other exit angles of the
\* construction and, in "disk", a chain with one more particle released
AltRopes(v, b, rp) ==
    { spawnRope(v, b, ea) : ea \in ExitAngles \ {rp.exitAngle} }
    \cup (IF v = "disk"
          THEN { [rp EXCEPT !.freeCount = maybeFreeNext(rp.freeCount, 1)] }
          ELSE {})

ShadowState == [ball |-> shadow.ball, rope |-> shadow.rope, mouse |-> mouse,
                lastMouse |-> shadow.lastMouse, hitCooldown |-> shadow.hitCooldown,
                last |-> last, canvas |-> canvas]

\* what the second run keeps of a frame whose outcome is r
shadowOf(r) == [ball |-> r.ball, rope |-> r.rope, lastMouse |-> r.lastMouse,
                hitCooldown |-> r.hitCooldown]

InitPair ==
    /\ InitProgram
    /\ variant \in RopeVariants
    /\ \E alt \in AltRopes(variant, ball, rope) :
          shadow = [ball |-> ball, rope |-> alt, lastMouse |-> lastMouse,
                    hitCooldown |-> hitCooldown]

\* both runs take the frame, with the same timestamp and the same random draw
StepPair(now, rnd) ==
    /\ frameDue(now)
    /\ commitFrame(now, stepOf(variant, State, now, rnd))
    /\ shadow' = shadowOf(stepOf(variant, ShadowState, now, rnd))
    /\ UNCHANGED <<variant, canvas, mouse>>

NextPair ==
    \/ \E p \in Pointers(canvas) : MouseMove(p)
    \/ \E p \in Pointers(canvas) : MouseDown(p)
    \/ MouseUp
    \/ \E p \in Pointers(canvas) : TouchStart(p)
    \/ \E p \in Pointers(canvas) : TouchMove(p)
    \/ TouchEnd
    \/ \E d \in FrameDeltas, rnd \in Rnds : StepPair(last + d, rnd)

SpecPair == InitPair /\ [][NextPair]_vars

-----------------------------------------------------------------------------
(* satisfyRope on its own: every configuration of a rope of three nodes *)

\* positions of the predicted nodes: on a line through the origin at half a
\* segment and at a whole segment, and off that line
RopePoints == { [x |-> 0, y |-> 0], [x |-> 5 * PX, y |-> 0],
                [x |-> 10 * PX, y |-> 0], [x |-> 0, y |-> 10 * PX] }

\* positions of the anchor
RopeAnchors == { [x |-> 0, y |-> 0], [x |-> 0, y |-> 3 * PX] }

InitSolve ==
    /\ variant = "ik"
    /\ canvas = [w |-> canvasW * PX, h |-> canvasH * PX]
    /\ ball = spawnBall(variant, canvas, 0)
    /\ \E n0 \in RopePoints, n1 \in RopePoints, n2 \in RopePoints :
          rope = [L_free |-> 20 * PX, exitAngle |-> 0,
                  nodes |-> <<Node(n0.x, n0.y), Node(n1.x, n1.y), Node(n2.x, n2.y)>>,
                  ropeInited |-> TRUE, SEG_LEN |-> 10 * PX]
    /\ mouse = [x |-> 0, y |-> 0, down |-> FALSE]
    /\ lastMouse = [x |-> 0, y |-> 0, t |-> 0]
    /\ hitCooldown = 0
    /\ last = 0
    /\ rafPending = 1
    /\ obs = [solved |-> FALSE]
    /\ hist = InitHist
    /\ shadow = NoShadow

\* satisfyRope(anchorX, anchorY) on the nodes as they are
Solve(an) ==
    /\ ~obs.solved
    /\ rope' = [rope EXCEPT !.nodes = satisfyRope(rope.nodes, an.x, an.y, rope.SEG_LEN)]
    /\ obs' = [solved |-> TRUE, anchor |-> an, pred |-> rope.nodes]
    /\ UNCHANGED <<variant, canvas, ball, mouse, lastMouse, hitCooldown, last,
                   rafPending, hist, shadow>>

NextSolve == \E an \in RopeAnchors : Solve(an)

SpecSolve == InitSolve /\ [][NextSolve]_vars

-----------------------------------------------------------------------------
(* An impulse-based body left alone: frames at the slow rate, then one frame
   at any rate *)

MaxDropTicks == 12

InitDrop == InitProgram /\ variant \in ImpulseVariants /\ shadow = NoShadow

DropStep(now, rnd) ==
    /\ rafPending > 0
    /\ hist.ticks < MaxDropTicks
    /\ hist.steady
    /\ commitFrame(now, stepOf(variant, State, now, rnd))
    /\ UNCHANGED <<variant, canvas, mouse, shadow>>

NextDrop == \E d \in FrameDeltas, rnd \in Rnds : DropStep(last + d, rnd)

SpecDrop == InitDrop /\ [][NextDrop]_vars

\* the disk-wound script left alone on a canvas lower than its disk
InitShort ==
    /\ variant = "disk"
    /\ \E hh \in {radius("disk"), radius("disk") + 10} :
          canvas = [w |-> canvasW * PX, h |-> hh * PX]
    /\ ball = spawnBall(variant, canvas, 0)
    /\ \E ea \in ExitAngles : rope = spawnRope(variant, ball, ea)
    /\ mouse = [x |-> 0, y |-> 0, down |-> FALSE]
    /\ lastMouse = [x |-> 0, y |-> 0, t |-> 0]
    /\ hitCooldown = 0
    /\ last = 0
    /\ rafPending = 1
    /\ obs = InitObs
    /\ hist = InitHist
    /\ shadow = NoShadow

SpecShort == InitShort /\ [][NextDrop]_vars

\* a script left alone on a canvas high enough for its body to spawn clear of
\* the ceiling
InitTall ==
    /\ variant \in Variants
    /\ \E hh \in {4 * radius("disk") + 8, 4 * radius("disk") + 16} :
          canvas = [w |-> canvasW * PX, h |-> hh * PX]
    /\ ball = spawnBall(variant, canvas, 0)
    /\ \E ea \in (IF variant \in {"disk", "ik"} THEN ExitAngles ELSE {0}) :
          rope = spawnRope(variant, ball, ea)
    /\ mouse = [x |-> 0, y |-> 0, down |-> FALSE]
    /\ lastMouse = [x |-> 0, y |-> 0, t |-> 0]
    /\ hitCooldown = 0
    /\ last = 0
    /\ rafPending = 1
    /\ obs = InitObs
    /\ hist = InitHist
    /\ shadow = NoShadow

SpecTall == InitTall /\ [][NextDrop]_vars

\* buildWoundPath on its own, one pass of its sprinkle loop at a time. The
\* loop asks for more anchors than the bands supply, as the script's 500 do
WindTarget == TOTAL_POINTS + 9

\* the draws of a pass: three directions, the two ends of the radius range
WindDraws == { <<a, r>> : a \in {0, 333, 667}, r \in {0, 999} }

\* the candidates of the draws
sprinklePoints == [draw \in WindDraws |-> sprinklePoint(draw)]

\* locals after the seed and the bands
bandLocals(exitAngle) ==
    pushAll(pushIfFar(<<>>, [x |-> RDiv((radius("disk") - 2) * PX * Cos(exitAngle), MRAD),
                             y |-> RDiv((radius("disk") - 2) * PX * Sin(exitAngle), MRAD)]),
            bandCandidates, 1)

InitWind ==
    /\ variant = "disk"
    /\ canvas = [w |-> canvasW * PX, h |-> canvasH * PX]
    /\ ball = spawnBall(variant, canvas, 0)
    /\ \E ea \in ExitAngles :
          rope = [locals |-> bandLocals(ea), exitAngle |-> ea]
    /\ mouse = [x |-> 0, y |-> 0, down |-> FALSE]
    /\ lastMouse = [x |-> 0, y |-> 0, t |-> 0]
    /\ hitCooldown = 0
    /\ last = 0
    /\ rafPending = 1
    /\ obs = [returned |-> FALSE, rejected |-> FALSE, sprinkled |-> 0]
    /\ hist = InitHist
    /\ shadow = NoShadow

\* one pass of "while (locals.length < TOTAL_POINTS)"
Sprinkle(draw) ==
    /\ ~obs.returned
    /\ Len(rope.locals) < WindTarget
    /\ rope' = [rope EXCEPT !.locals = pushIfFar(@, sprinklePoints[draw])]
    /\ obs' = [obs EXCEPT !.rejected = @ \/ Len(rope'.locals) = Len(rope.locals),
                          !.sprinkled = @ + Len(rope'.locals) - Len(rope.locals)]
    /\ UNCHANGED <<variant, canvas, ball, mouse, lastMouse, hitCooldown, last,
                   rafPending, hist, shadow>>

\* the loop exits and buildWoundPath returns
WindReturn ==
    /\ ~obs.returned
    /\ Len(rope.locals) >= WindTarget
    /\ obs' = [obs EXCEPT !.returned = TRUE]
    /\ UNCHANGED <<variant, canvas, ball, rope, mouse, lastMouse, hitCooldown, last,
                   rafPending, hist, shadow>>

NextWind ==
    \/ \E draw \in WindDraws : Sprinkle(draw)
    \/ WindReturn

\* a pass whose draw is accepted
SprinkleFar ==
    /\ ~obs.returned
    /\ Len(rope.locals) < WindTarget
    /\ \E draw \in WindDraws :
          rope' = [rope EXCEPT !.locals = Append(@, sprinklePoints[draw])]
    /\ obs' = [obs EXCEPT !.sprinkled = @ + 1]
    /\ UNCHANGED <<variant, canvas, ball, mouse, lastMouse, hitCooldown, last,
                   rafPending, hist, shadow>>

\* fair draws: a draw at least SEG_LEN from the last anchor eventually occurs
SpecWind == InitWind /\ [][NextWind]_vars /\ WF_vars(SprinkleFar) /\ WF_vars(WindReturn)

\* an impulse-based body with the pointer brought under it
PointersBelow(cv) == { [x |-> cv.w \div 2, y |-> cv.h \div 4 + 15 * PX] }

NextPoke ==
    \/ \E p \in PointersBelow(canvas) : MouseMove(p)
    \/ \E d \in FrameDeltas, rnd \in Rnds : DropStep(last + d, rnd)

SpecPoke == InitDrop /\ [][NextPoke]_vars

-----------------------------------------------------------------------------
(* Properties *)

\* a frame has run: obs holds what it did
Ticked == obs.frames = 1

\* freeCount before substep i of the last frame
FreeCountBefore(i) == IF i = 1 THEN obs.fc0 ELSE obs.sub[i - 1].fc

\* C1: in "disk", 1 <= freeCount <= TOTAL_POINTS - 1 in every state, so that
\* both particles of the boundary link exist; through the substeps of a frame
\* freeCount never decreases, neither in tensionRelease nor in a hit; and a
\* promotion requested at TOTAL_POINTS - 1 leaves freeCount where it is.
C1_FreeCountBounded ==
    variant = "disk" =>
        /\ 1 <= rope.freeCount
        /\ rope.freeCount <= TOTAL_POINTS - 1
        /\ rope.freeCount \in DOMAIN rope.points
        /\ rope.freeCount + 1 \in DOMAIN rope.points
        /\ Ticked =>
             /\ \A i \in DOMAIN obs.sub :
                  /\ FreeCountBefore(i) <= obs.sub[i].fcRel
                  /\ obs.sub[i].fcRel <= obs.sub[i].fc
                  /\ obs.sub[i].fcRel = TOTAL_POINTS - 1 => obs.sub[i].fc = TOTAL_POINTS - 1
             /\ obs.sub[Len(obs.sub)].fc = rope.freeCount

\* a hit asks for a promotion when only one particle is left on the disk
C1_PromotionAtLimit ==
    /\ variant = "disk"
    /\ Ticked
    /\ \E i \in DOMAIN obs.sub :
         obs.sub[i].hit /\ obs.sub[i].segs >= 1 /\ obs.sub[i].fcRel = TOTAL_POINTS - 1

\* C2: in "ik", after every frame 0 <= L_free <= L_total and L_free is at
\* least its value before the frame.
C2_ReleasedLengthMonotone ==
    (variant = "ik" /\ Ticked) =>
        /\ 0 <= rope.L_free
        /\ rope.L_free <= L_total
        /\ rope.L_free >= obs.L0

\* a frame feeds a rope that is already partly released up to the budget
C2_BudgetReached ==
    /\ variant = "ik"
    /\ Ticked
    /\ 0 < obs.L0
    /\ obs.L0 < rope.L_free
    /\ rope.L_free = L_total

\* a boundary test of the last frame detected a penetration
PenDetected ==
    obs.pen.floor > 0 \/ obs.pen.ceiling > 0 \/ obs.pen.left > 0 \/ obs.pen.right > 0

\* how far the centre is beyond each side of [radius, w - radius] x
\* [radius, h - radius] once the boundaries of the last frame are resolved
Beyond ==
    LET r == radius(variant) * PX
    IN  [floor |-> obs.afterBounds.y + r - canvas.h, ceiling |-> r - obs.afterBounds.y,
         left |-> r - obs.afterBounds.x, right |-> obs.afterBounds.x + r - canvas.w]

Remainder(p, left) ==
    IF p <= (2 * PX) \div 10 THEN left <= p
    ELSE 10 * left <= 2 * p + 8 * ((2 * PX) \div 10) + 5

InRangeAt(o) ==
    LET dx == o.mx - o.bx
        dy == o.my - o.by
        R == (radius(variant) + hitMargin(variant)) * PX
    IN  IF variant = "disk" THEN dx * dx + dy * dy <= R * R
                             ELSE dx * dx + dy * dy < R * R

\* C4, as stated: in every script a frame (substep) applies a hit if and only
\* if the pointer is within radius + margin of the centre and the cooldown is 0
\* at the hit test.
C4_HitIffInRangeAndCool ==
    Ticked =>
        \A i \in DOMAIN obs.sub :
            obs.sub[i].hit <=> (InRangeAt(obs.sub[i]) /\ obs.sub[i].cool = 0)

\* C4, amended: in every script a frame (substep) applies a hit if and only if
\* the pointer is within radius + margin of the centre, the cooldown is 0 at
\* the hit test and, in "disk", the pointer is down.
C4_HitIffInRangeCoolAndDown ==
    Ticked =>
        \A i \in DOMAIN obs.sub :
            obs.sub[i].hit <=> /\ InRangeAt(obs.sub[i])
                               /\ obs.sub[i].cool = 0
                               /\ variant = "disk" => obs.sub[i].down

\* a substep of "disk" applies a hit
C4_DiskHit ==
    /\ variant = "disk"
    /\ Ticked
    /\ \E i \in DOMAIN obs.sub : obs.sub[i].hit /\ obs.sub[i].down

\* C5: right after a hit the cooldown is 0.09 s (0.10 s in "disk"), positive;
\* a hit that follows another comes after at least that much clamped time has
\* been subtracted from the cooldown; no frame applies more than one hit, the
\* two substeps of "disk" included; and no two consecutive frames both hit.
C5_CooldownSeparatesHits ==
    Ticked =>
        /\ \A i \in DOMAIN obs.sub :
             obs.sub[i].hit =>
                 /\ obs.sub[i].coolAfter > 0
                 /\ obs.sub[i].coolAfter = IF variant = "disk" THEN 100 * MS ELSE 90 * MS
        /\ obs.sinceAtHit >= 0 =>
             obs.sinceAtHit >= IF variant = "disk" THEN 100 * MS ELSE 90 * MS
        /\ obs.hits <= 1
        /\ ~(obs.hits >= 1 /\ hist.prevHits >= 1)

\* a frame of "disk" applies the second hit of a run
C5_SecondHit ==
    /\ variant = "disk"
    /\ Ticked
    /\ obs.hits = 1
    /\ obs.sinceAtHit >= 0

\* C6: two runs of a rope script ("ik", "disk") that start with the same body,
\* pointer, cooldown and world and take the same frames and pointer events, but
\* differ in the rope, have the same body (position, velocity, angle, spin),
\* cooldown and lastMouse after every frame.
C6_BodyIgnoresRope ==
    shadow # NoShadow =>
        /\ shadow.ball = ball
        /\ shadow.hitCooldown = hitCooldown
        /\ shadow.lastMouse = lastMouse

\* after a hit the two runs of "ik" have released different lengths and hold
\* different numbers of nodes
C6_RopesDiverged ==
    /\ shadow # NoShadow
    /\ variant = "ik"
    /\ hist.ticks >= 2
    /\ shadow.rope.L_free # rope.L_free
    /\ Len(shadow.rope.nodes) # Len(rope.nodes)
    /\ shadow.rope.exitAngle # rope.exitAngle

\* C7: every frame, whatever its timestamp, has 0 <= dt <= 0.033 s, sets last
\* to the timestamp, runs to its end (every hit test of the frame is made and
\* lastMouse is stamped) and leaves exactly one frame requested; while the
\* timestamps have not decreased, the sum of the dt is at most the time
\* elapsed since the start.
C7_StepClamped ==
    /\ rafPending = 1
    /\ Ticked =>
         /\ 0 <= obs.dt
         /\ obs.dt <= 33 * MS
         /\ last = obs.now
         /\ lastMouse.t = obs.now
         /\ Len(obs.sub) = IF variant = "disk" THEN 2 ELSE 1
         /\ hist.mono => hist.simTime <= last - hist.t0

\* a frame arrives with a timestamp before the previous one
C7_TimestampDecreased ==
    /\ Ticked
    /\ obs.now < obs.last0
    /\ obs.dt = 0
    /\ last = obs.now

\* C8: a step that is not a frame (a pointer or touch handler) changes nothing
\* but the pointer position and the down flag.
C8_HandlersWritePointerOnly ==
    [][hist.ticks' = hist.ticks =>
          /\ UNCHANGED <<ball, rope, hitCooldown, lastMouse, last, rafPending, canvas>>
          /\ DOMAIN mouse' = DOMAIN mouse]_vars

\* a handler has moved and pressed the pointer since the last frame
C8_PointerMovedBetweenFrames ==
    /\ hist.ticks >= 1
    /\ mouse.down
    /\ mouse.x # lastMouse.x \/ mouse.y # lastMouse.y
    /\ lastMouse.t = last

\* C9: in "ik", at the end of every frame node 0 and its previous position are
\* at the anchor of that frame, the centre plus r_spool(L_free) along the exit
\* angle turned by the body's angle, and integrateRope leaves node 0 alone.
C9_HeadPinnedToAnchor ==
    (variant = "ik" /\ Ticked) =>
        /\ obs.anchor.x = ball.x + RDiv(Cos(obs.exit0 + ball.angle) * r_spool_of(obs.L0), MRAD)
        /\ obs.anchor.y = ball.y + RDiv(Sin(obs.exit0 + ball.angle) * r_spool_of(obs.L0), MRAD)
        /\ rope.nodes[1].x = obs.anchor.x
        /\ rope.nodes[1].y = obs.anchor.y
        /\ rope.nodes[1].px = obs.anchor.x
        /\ rope.nodes[1].py = obs.anchor.y
        /\ obs.pred[1] = obs.grown[1]

\* the anchor moves in a frame of a rope of three nodes or more
C9_AnchorMoved ==
    /\ variant = "ik"
    /\ Ticked
    /\ obs.inited0
    /\ Len(rope.nodes) >= 3
    /\ obs.grown[1] # rope.nodes[1]

\* C10, as stated: in "ik", once the rope is initialised a frame never removes
\* a node and appends at most one.
C10_AtMostOneNodePerFrame ==
    (variant = "ik" /\ Ticked /\ obs.inited0) =>
        /\ Len(rope.nodes) >= obs.count0
        /\ Len(rope.nodes) <= obs.count0 + 1

\* C10, amended: in "ik", once the rope is initialised a frame never removes a
\* node, and every frame appends as many nodes as the target count,
\* max(1, floor(L_free / SEG_LEN)) + 1, exceeds the count, however many.
C10_GrowsToTarget ==
    (variant = "ik" /\ Ticked) =>
        /\ obs.inited0 => Len(rope.nodes) >= obs.count0
        /\ LET count1 == IF obs.inited0 THEN obs.count0 ELSE 2
               whole == rope.L_free \div rope.SEG_LEN
               target == (IF whole >= 1 THEN whole ELSE 1) + 1
           IN  Len(rope.nodes) = IF target > count1 THEN target ELSE count1

\* a frame appends two nodes or more
C10_SeveralNodesInOneFrame ==
    /\ variant = "ik"
    /\ Ticked
    /\ obs.inited0
    /\ Len(rope.nodes) >= obs.count0 + 2

\* C11, as stated: in "ik", the target node count of a released length L is
\* floor(L / SEG_LEN) + 1 for every L in [0, L_total], and at the end of every
\* frame the rope has as many nodes as the target of the frame's L_free.
C11_CountIsFloorPlusOne ==
    (variant = "ik" /\ Ticked) =>
        /\ \A L \in 0..L_total :
             targetCountForLength(L, rope.SEG_LEN) = (L \div rope.SEG_LEN) + 1
        /\ Len(rope.nodes) = (rope.L_free \div rope.SEG_LEN) + 1

\* C11, amended: in "ik", the target node count of a released length L is
\* max(1, floor(L / SEG_LEN)) + 1 for every L in [0, L_total], that is 2 below
\* one segment of released length and floor(L / SEG_LEN) + 1 from there on,
\* and at the end of every frame the rope has as many nodes as that target of
\* the frame's L_free.
C11_CountIsTarget ==
    (variant = "ik" /\ Ticked) =>
        /\ \A L \in 0..L_total :
             targetCountForLength(L, rope.SEG_LEN) =
                 IF L < rope.SEG_LEN THEN 2 ELSE (L \div rope.SEG_LEN) + 1
        /\ Len(rope.nodes) =
               IF rope.L_free < rope.SEG_LEN THEN 2 ELSE (rope.L_free \div rope.SEG_LEN) + 1

\* a frame ends with less than one segment released and two nodes
C11_ShortRope ==
    /\ variant = "ik"
    /\ Ticked
    /\ rope.L_free < rope.SEG_LEN
    /\ Len(rope.nodes) = 2

\* squared distance of two nodes
Dist2(a, b) == (b.x - a.x) * (b.x - a.x) + (b.y - a.y) * (b.y - a.y)

\* nodes i and i + 1 of the rope are at SEG_LEN from each other, within 2%
LinkWithinTolerance(i) ==
    /\ 10000 * Dist2(rope.nodes[i], rope.nodes[i + 1])
           >= (98 * rope.SEG_LEN) * (98 * rope.SEG_LEN)
    /\ 10000 * Dist2(rope.nodes[i], rope.nodes[i + 1])
           <= (102 * rope.SEG_LEN) * (102 * rope.SEG_LEN)

\* C12: in "ik", when satisfyRope has returned every adjacent pair of nodes is
\* at distance SEG_LEN within 2%, for every anchor and every predicted
\* configuration, those with coinciding nodes included.
C12_LinksAtSegLen ==
    obs.solved => \A i \in 1..(Len(rope.nodes) - 1) : LinkWithinTolerance(i)

\* the anchor and the tangent at which the last frame of "ik" measured the
\* surface speed
FrameAnchor == anchorOf([L_free |-> obs.L0, exitAngle |-> obs.exit0], ball)

\* the surface speed along the tangent at the anchor in the last frame
SurfaceSpeed ==
    LET cv == contactVelocity(ball.vx, ball.vy, ball.spin, FrameAnchor.rx, FrameAnchor.ry)
    IN  RDiv(cv.cx * FrameAnchor.tx + cv.cy * FrameAnchor.ty, MRAD)

\* the last frame of "ik" fed at the cap
Saturated == variant = "ik" /\ Ticked /\ SurfaceSpeed >= 800 * PX

\* C13, as stated: in "ik", a frame in which the surface speed at the anchor is
\* at or above v_max_feed, coming a wall-clock time T >= 0 after the previous
\* one, increases L_free by exactly v_max_feed * T, clamped at L_total (and so
\* does every sequence of such frames).
C13_FeedFollowsWallClock ==
    (Saturated /\ obs.now >= obs.last0) =>
        rope.L_free = Min(L_total, obs.L0 + RDiv(800 * PX * (obs.now - obs.last0), SEC))

\* C13, amended: in "ik", a frame in which the surface speed at the anchor is
\* at or above v_max_feed increases L_free by exactly v_max_feed * dt, clamped
\* at L_total, where dt is the frame's step clamp(T, 0, 0.033 s); a sequence of
\* such frames increases it by v_max_feed times the sum of the steps, which is
\* v_max_feed * T only while no frame comes more than 0.033 s after the one
\* before.
C13_FeedFollowsClampedTime ==
    Saturated =>
        /\ obs.dt = Min(33 * MS, Max(0, obs.now - obs.last0))
        /\ rope.L_free = Min(L_total, obs.L0 + RDiv(800 * PX * obs.dt, SEC))

\* a frame that comes 40 ms after the previous one feeds at the cap
C13_SlowFrameAtCap ==
    /\ Saturated
    /\ obs.now - obs.last0 > 33 * MS
    /\ rope.L_free > obs.L0
    /\ rope.L_free < L_total


\* twice the total energy of the body, in (0.1 px/s)^2: translational and
\* rotational kinetic energy and the potential energy of its height above
\* the floor line
energy2(b) ==
    mass * (b.vx * b.vx + b.vy * b.vy)
    + RDiv(b.spin * b.spin, MRAD) * ((inertia(variant) * PX * PX) \div MRAD)
    + 2 * mass * grav(variant) * PX * (canvas.h - b.y)

\* the energy of one unit of height, the resolution of the positions
energySlack == 2 * mass * grav(variant) * PX

\* C14: across every frame of an impulse-based body in which no pointer hit is
\* applied, the total energy after the frame is not greater than before it
C14_EnergyNeverIncreases ==
    [][(variant \in ImpulseVariants /\ hist.ticks' = hist.ticks + 1 /\ obs'.hits = 0)
          => energy2(ball') <= energy2(ball) + energySlack]_vars


\* the off-screen recovery reset the body in the frame observed by o
Recovered(o) == o.afterBounds.y - radius(variant) * PX > canvas.h + 400 * PX

\* C15: an impulse-based body with vx = 0 and spin = 0 has vx = 0 and spin = 0
\* after a frame without a pointer hit and without the off-screen recovery,
\* whatever floor and ceiling contacts the frame resolves
C15_NoSidewaysDrift ==
    [][(/\ variant \in ImpulseVariants
        /\ hist.ticks' = hist.ticks + 1
        /\ ball.vx = 0 /\ ball.spin = 0
        /\ obs'.hits = 0
        /\ ~Recovered(obs'))
          => (ball'.vx = 0 /\ ball'.spin = 0)]_vars

\* a frame without a hit in which the body, with vx = 0 and spin = 0, has
\* bounced off the floor
C15_StraightBounce ==
    /\ variant \in ImpulseVariants
    /\ Ticked
    /\ obs.hits = 0
    /\ obs.pen.floor > 0
    /\ ball.vy < 0
    /\ ball.vx = 0 /\ ball.spin = 0


\* r_spool_of over the whole range of released lengths
SpoolRadiusInRange ==
    /\ r_spool_of(0) = r_core
    /\ r_spool_of(L_total) = radius("ik") * PX
    /\ \A L \in 0..L_total :
          /\ r_core <= r_spool_of(L)
          /\ r_spool_of(L) <= radius("ik") * PX
          /\ L < L_total => r_spool_of(L) <= r_spool_of(L + 1)

\* C16: r_spool_of(L) lies in [r_core, radius] for every L in [0, L_total], is
\* r_core at 0 and radius at L_total, and is non-decreasing in L; the wound
\* radius that a frame of the spool script uses for the anchor is never less
\* than the one the frame before it used
C16_WoundRadiusNeverDecreases ==
    [][variant = "ik"
          => (SpoolRadiusInRange /\ r_spool_of(rope'.L_free) >= r_spool_of(rope.L_free))]_vars

\* a frame that has fed yarn, after which the anchor sits on a larger radius
C16_RadiusGrew ==
    variant = "ik" /\ Ticked /\ r_spool_of(rope.L_free) > r_spool_of(obs.L0)


\* particle i sits, with its previous position, on its local anchor carried by
\* the disk at pose
Glued(pts, i, pose) ==
    LET q == worldFromLocal(pose, rope.woundLocal[i])
    IN  pts[i] = Node(q.x, q.y)

\* the promotions that the substep observed by e made
PromotedGlued(e) ==
    /\ \A i \in (e.fcTension + 1)..e.fcRel :
          Glued(e.atTension, i, e.pose) /\ e.atHit[i] = e.atTension[i]
    /\ \A i \in (e.fcRel + 1)..e.fc : Glued(e.atHit, i, e.pose)
    /\ e.afterHit = e.atHit

BoundaryLink(e) ==
    Hypot(e.atTension[e.fcTension + 1].x - e.atTension[e.fcTension].x,
          e.atTension[e.fcTension + 1].y - e.atTension[e.fcTension].y)

Overstretched(e) == e.fcTension >= 1 /\ 100 * BoundaryLink(e) > 135 * SEG_LEN

\* C18: in the disk-wound frame loop tensionRelease, called after
\* satisfyConstraints, increases freeCount (by one to four particles) exactly
\* in the substeps in which it finds the boundary link longer than
\* 1.35 * SEG_LEN while a particle is left to free; runs without any pointer
\* hit reach such a substep
C18_ReleaseOnOverstretch ==
    (variant = "disk" /\ Ticked) =>
        \A k \in 1..Len(obs.sub) :
            LET e == obs.sub[k]
            IN  /\ e.fcRel >= e.fcTension
                /\ e.fcRel <= e.fcTension + 4
                /\ (e.fcRel > e.fcTension)
                      <=> (Overstretched(e) /\ e.fcTension < TOTAL_POINTS - 1)

\* a frame of a run without any pointer hit in which tensionRelease found the
\* boundary link overstretched and promoted particles
C18_ReleasedWithoutHit ==
    /\ variant = "disk"
    /\ Ticked
    /\ hist.since < 0
    /\ obs.hits = 0
    /\ \E k \in 1..Len(obs.sub) :
          Overstretched(obs.sub[k]) /\ obs.sub[k].fcRel > obs.sub[k].fcTension


\* the length of the link between particles i - 1 and i of pts
LinkLength(pts, i) == Hypot(pts[i].x - pts[i - 1].x, pts[i].y - pts[i - 1].y)

\* satisfyConstraints in the substep observed by e: no wound particle moved,
\* and the last free particle, unless the floor clamp holds it, is one
\* SEG_LEN from the first wound one
WoundFixed(e) ==
    /\ \A i \in (e.fcTension + 1)..TOTAL_POINTS : e.atTension[i] = e.atSolve[i]
    /\ (e.fcTension >= 1 /\ e.atTension[e.fcTension].y < canvas.h
          /\ LinkLength(e.atSolve, e.fcTension + 1) > 0)
          => Abs(BoundaryLink(e) - SEG_LEN) <= 1

\* C19: in the disk-wound script satisfyConstraints leaves every wound particle
\* (index >= freeCount) where it was, through all its iterations; the link
\* between the last free and the first wound particle moves only the free end,
\* by the full correction
C19_WoundParticlesFixed ==
    (variant = "disk" /\ Ticked) => \A k \in 1..Len(obs.sub) : WoundFixed(obs.sub[k])

\* satisfyConstraints found the boundary link off SEG_LEN and moved its free
\* end
C19_FreeEndCorrected ==
    /\ variant = "disk"
    /\ Ticked
    /\ \E k \in 1..Len(obs.sub) :
          LET e == obs.sub[k]
          IN  /\ e.fcTension >= 1
              /\ Abs(LinkLength(e.atSolve, e.fcTension + 1) - SEG_LEN) > 1
              /\ e.atTension[e.fcTension] # e.atSolve[e.fcTension]
              /\ e.atTension[e.fcTension].y < canvas.h


\* C20: in the disk-wound script, after initRope, the head particle
\* points[freeCount] sits, with its previous position, on the exit point of the
\* disk's surface: on the local anchor that buildWoundPath seeds on the rim at
\* exitAngle, carried by the disk
C20_HeadOnExitPoint ==
    (variant = "disk" /\ hist.ticks = 0) =>
        /\ rope.woundLocal[1] =
              [x |-> RDiv((radius("disk") - 2) * PX * Cos(rope.exitAngle), MRAD),
               y |-> RDiv((radius("disk") - 2) * PX * Sin(rope.exitAngle), MRAD)]
        /\ LET q == worldFromLocal(ball, rope.woundLocal[1])
           IN  rope.points[rope.freeCount + 1] = Node(q.x, q.y)


\* C21: in the disk-wound script, after initRope, every particle 0 ..
\* TOTAL_POINTS - 1 has been given a position with an equal previous position,
\* so that none is left at the (0, 0) of the array's creation
C21_WholeChainPlaced ==
    (variant = "disk" /\ hist.ticks = 0) =>
        \A i \in 1..TOTAL_POINTS :
            /\ rope.points[i].px = rope.points[i].x
            /\ rope.points[i].py = rope.points[i].y
            /\ rope.points[i] # Node(0, 0)


\* the body after the boundaries of a frame of step dt, had the ceiling been
\* resolved with the restitution e
boundsWithCeiling(dt, e) ==
    LET r == radius(variant) * PX
        f == floorContact(variant, integrateImpulse(variant, ball, dt), canvas.h).ball
        c == IF f.y - r < 0 THEN contact(variant, f, 0, 1, r - f.y, e, muGround) ELSE f
    IN  rightContact(variant, leftContact(variant, [ball |-> c, pen |-> [floor |-> 0, ceiling |-> 0]]),
                     canvas.w).ball

\* C22: in the impulse-based scripts the floor and the ceiling are both
\* resolved with the restitution rest and the friction muGround, the left and
\* right walls with wallRest and muWall: the boundaries of every frame leave the
\* body that a ceiling of restitution rest leaves
C22_CeilingUsesRest ==
    [][(variant \in ImpulseVariants /\ hist.ticks' = hist.ticks + 1)
          => frameBounds(variant, ball, canvas.w, canvas.h, obs'.dt).ball
                = boundsWithCeiling(obs'.dt, rest(variant))]_vars


\* the unit normals of the four half-planes
PlaneNormals == { <<0, -1>>, <<0, 1>>, <<1, 0>>, <<-1, 0>> }

\* restitutions and frictions the scripts pass, in hundredths
Restitutions == { rest(variant), wallRest(variant) }
Frictions == { muGround, muWall }

\* resolvePlaneContact on the body b with the normal n: nothing changes when
\* the contact point is not approaching; otherwise the normal velocity is
\* reversed and scaled by e (within one velocity unit) and the tangential
\* impulse stays within the Coulomb cone of the normal impulse
ContactResolved(b, n, e, mu) ==
    LET b2 == resolvePlaneContact(variant, b, n[1], n[2], e, mu)
        cv == contactVelocity(b.vx, b.vy, b.spin,
                              -n[1] * radius(variant) * PX, -n[2] * radius(variant) * PX)
        vn == cv.cx * n[1] + cv.cy * n[2]
        Jn == mass * ((b2.vx - b.vx) * n[1] + (b2.vy - b.vy) * n[2])
        Jt == mass * ((b2.vx - b.vx) * (-n[2]) + (b2.vy - b.vy) * n[1])
    IN  IF vn >= 0 THEN b2 = b
        ELSE /\ Abs((b2.vx * n[1] + b2.vy * n[2]) - RDiv(-e * vn, 100)) <= 1
             /\ Abs(Jt) <= RDiv(mu * Abs(Jn), 100)

\* C23: resolvePlaneContact with a unit normal n, restitution e and friction
\* mu changes no field of the body when the contact point's normal velocity vn
\* is >= 0; when vn < 0 the body's velocity along n is -e * vn afterwards and
\* the tangential impulse is at most mu * |Jn|
C23_RestitutionAndCoulombCone ==
    variant \in ImpulseVariants =>
        \A n \in PlaneNormals, e \in Restitutions, mu \in Frictions :
            ContactResolved(ball, n, e, mu)

\* a body that approaches the floor while it slides along it: the contact
\* reverses its normal velocity and applies a friction impulse
C23_SlidingApproach ==
    /\ variant \in ImpulseVariants
    /\ Ticked
    /\ ball.vy > 0
    /\ LET b2 == resolvePlaneContact(variant, ball, 0, -1, rest(variant), muGround)
       IN  b2.vy < 0 /\ b2.vx # ball.vx /\ b2.spin # ball.spin


HardClampVariants == ClampVariants \cup {"disk"}

\* the centre p lies at least one radius inside the world
CentreInside(p) ==
    /\ radius(variant) * PX <= p.x /\ p.x <= canvas.w - radius(variant) * PX
    /\ radius(variant) * PX <= p.y /\ p.y <= canvas.h - radius(variant) * PX

\* C24: in the hard-clamp scripts, when the world is at least 2 * radius wide
\* and high, the body centre lies in [radius, w - radius] x [radius, h - radius]
\* at the end of every frame, and of every substep of the disk-wound script,
\* whatever the velocity and the pointer hits
C24_CentreStaysInside ==
    (/\ variant \in HardClampVariants
     /\ Ticked
     /\ canvas.w >= 2 * radius(variant) * PX
     /\ canvas.h >= 2 * radius(variant) * PX)
        => /\ CentreInside(ball)
           /\ variant = "disk" => \A k \in 1..Len(obs.sub) : CentreInside(obs.sub[k].pose)

\* a frame with a hit whose boundaries clamped the body to the ceiling
C24_ClampedUnderHit ==
    /\ variant \in ClampVariants
    /\ Ticked
    /\ obs.hits > 0
    /\ obs.pen.ceiling > 0
    /\ ball.y = radius(variant) * PX


\* particle p lies in the world rectangle
InWorld(p) == 0 <= p.x /\ p.x <= canvas.w /\ 0 <= p.y /\ p.y <= canvas.h

ClampTurnsBack(p, q, d) ==
    /\ p.y + (p.y - p.py) + verletGravity(d) > canvas.h => q.y - q.py <= 0
    /\ p.y + (p.y - p.py) + verletGravity(d) < 0 => q.y - q.py >= 0
    /\ p.x + (p.x - p.px) < 0 => q.x - q.px >= 0
    /\ p.x + (p.x - p.px) > canvas.w => q.x - q.px <= 0

\* C26: in the disk-wound script, whenever integrateTail clamps a free
\* particle onto the floor, the ceiling or a side wall, the particle's implicit
\* velocity (position minus previous position) normal to that boundary is
\* afterwards zero or points back into the world
C26_ClampedParticleTurnsBack ==
    (variant = "disk" /\ Ticked) =>
        \A k \in 2..Len(obs.sub) :
            \A i \in 1..obs.sub[k - 1].fc :
                ClampTurnsBack(obs.sub[k - 1].afterHit[i], obs.sub[k].atSolve[i],
                               obs.sub[k].d)


\* world heights and steps for the boundaries of the hard-clamp scripts
WorldHeights == { 0, 30 * PX, canvas.h }
ClampSteps == { 0, 16 * MS, maxStep }

\* after the floor and ceiling clamps in a world of height h the centre is at
\* most on the floor line or, in a world lower than the body, on the ceiling
\* line: never 400 px under the floor
BelowFloorExcluded(y, h) ==
    /\ y <= Max(h - radius(variant) * PX, radius(variant) * PX)
    /\ ~(y - radius(variant) * PX > h + 400 * PX)

\* C27: in the hard-clamp scripts with an off-screen recovery (part_000,
\* part_002) the test ball.y - radius > h + 400 is false in every frame, for
\* every velocity, world size and pointer input, since the floor and ceiling
\* clamps have already run with the same h
C27_RecoveryUnreachable ==
    (variant \in ClampVariants /\ Ticked) =>
        /\ ~Recovered(obs)
        /\ BelowFloorExcluded(obs.afterBounds.y, canvas.h)
        /\ \A hh \in WorldHeights, dt \in ClampSteps :
              BelowFloorExcluded(
                  boundsClamp(variant, integrateClamp(variant, ball, dt), canvas.w, hh).ball.y,
                  hh)

\* a frame in which the body, thrown down by a hit, had passed the floor and
\* was clamped back
C27_FloorClampedAfterHit ==
    /\ variant \in ClampVariants
    /\ Ticked
    /\ hist.since >= 0
    /\ obs.pen.floor > 0
    /\ obs.afterBounds.y = canvas.h - radius(variant) * PX


\* the centre p is clear of the four boundaries
ClearOfBoundaries(p) ==
    /\ radius(variant) * PX < p.x /\ p.x < canvas.w - radius(variant) * PX
    /\ radius(variant) * PX < p.y /\ p.y < canvas.h - radius(variant) * PX

\* the frame observed by o touched no boundary
NoBoundaryTouched(o) ==
    IF variant = "disk"
    THEN \A k \in 1..Len(o.sub) : ClearOfBoundaries(o.sub[k].pose)
    ELSE o.pen.floor = 0 /\ o.pen.ceiling = 0 /\ o.pen.left = 0 /\ o.pen.right = 0

\* C28: in every script a frame whose clamped dt is 0, in which the body
\* touches no boundary and no pointer hit is applied, leaves the body's centre
\* and orientation unchanged
C28_ZeroStepKeepsPose ==
    [][(/\ hist.ticks' = hist.ticks + 1
        /\ obs'.dt = 0
        /\ obs'.hits = 0
        /\ NoBoundaryTouched(obs'))
          => (ball'.x = ball.x /\ ball'.y = ball.y
                /\ (variant # "clamp" => ball'.angle = ball.angle))]_vars


\* consecutive anchors of locals are at least SEG_LEN apart
WellSpaced(locals) ==
    \A i \in 1..(Len(locals) - 1) :
        Hypot(locals[i + 1].x - locals[i].x, locals[i + 1].y - locals[i].y) >= SEG_LEN

\* every anchor of locals lies within the disk
WithinDisk(locals) ==
    \A i \in 1..Len(locals) : Hypot(locals[i].x, locals[i].y) <= radius("disk") * PX

\* some draw of the loop is kept after locals: the fair draws can make progress
FarDrawExists(locals) ==
    \E draw \in WindDraws :
        Len(pushIfFar(locals, sprinklePoints[draw])) > Len(locals)

\* C29: buildWoundPath terminates for every exitAngle when the draws are
\* fair, and on return locals holds at least TOTAL_POINTS anchors, each
\* consecutive pair at least SEG_LEN apart and each within radius of the
\* disk's centre
C29_WindingTerminates ==
    /\ [](Len(rope.locals) < WindTarget => FarDrawExists(rope.locals))
    /\ <>(/\ obs.returned
           /\ Len(rope.locals) >= WindTarget
           /\ WellSpaced(rope.locals)
           /\ WithinDisk(rope.locals))

\* buildWoundPath returned after its loop rejected a draw and accepted others
C29_ReturnedAfterRejection ==
    /\ variant = "disk"
    /\ obs.returned
    /\ obs.rejected
    /\ obs.sprinkled >= 3


\* the substep observed by e applied a hit with particles left to unwind
HitBelowTheEnd(e) == e.hit /\ e.fcRel < TOTAL_POINTS - 1

=============================================================================
